---- MODULE Spec2Model ----
(***************************************************************************)
(* CivicTrack backend: the issue store, the issue routes' middleware       *)
(* chains and controllers, and the views they return.                      *)
(*                                                                         *)
(* Numbers: coordinates are in micro-degrees, distances in hundredths of a *)
(* kilometre (calculateDistance rounds to two decimals), storage distances *)
(* in metres.                                                              *)
(***************************************************************************)
EXTENDS Integers, Sequences, FiniteSets, TLC

VARIABLES env, issues, nextId, req, res, heap, input, output, users, loaded

vars == <<env, issues, nextId, req, res, heap, input, output, users, loaded>>

\* ------------------------------------------------------------------ bounds

\* Number of issue ids the store hands out (ObjectIds are never reused).
MaxIssues == 1
\* Longest activity log kept on an issue, its 'Assigned' entries apart.
MaxLog == 2
\* Most assignments of an issue.
MaxAssignments == 1
\* Most comments kept on an issue.
MaxComments == 1
\* Most flags an issue is ever given.
MaxFlaggings == 3

\* ------------------------------------------------------------- JS values

Null == "null"

\* A query-string parameter: absent, text without a leading number, a decimal
\* number, or a decimal number followed by other characters ("18.5204abc").
\* isnum: the whole string is a decimal number; lead: it begins with one, val.
Absent == [present |-> FALSE, isnum |-> FALSE, lead |-> FALSE, val |-> 0]
Text == [present |-> TRUE, isnum |-> FALSE, lead |-> FALSE, val |-> 0]
Num(v) == [present |-> TRUE, isnum |-> TRUE, lead |-> TRUE, val |-> v]
Prefixed(v) == [present |-> TRUE, isnum |-> FALSE, lead |-> TRUE, val |-> v]

\* !x for a query-string parameter (undefined and "" are falsy).
Falsy(q) == ~q.present

\* parseFloat: the leading number of the string; NaN when there is none and
\* for an absent parameter.
NaN == [nan |-> TRUE, val |-> 0]
parseFloat(q) == IF q.present /\ q.lead THEN [nan |-> FALSE, val |-> q.val] ELSE NaN
isNaN(x) == x.nan
\* x < c and x > c on JS numbers: every comparison with NaN is false.
Lt(x, c) == ~x.nan /\ x.val < c
Gt(x, c) == ~x.nan /\ x.val > c

\* ----------------------------------------------------------------- users

\* One account of each role.
Users == {"u1", "m1", "a1"}
Role(u) == CASE u = "a1" -> "admin" [] u = "m1" -> "moderator" [] OTHER -> "user"
Username(u) == CASE u = "u1" -> "alice" [] u = "m1" -> "mona" [] OTHER -> "adam"
Email(u) == CASE u = "u1" -> "alice@mail" [] u = "m1" -> "mona@mail" [] OTHER -> "adam@mail"

\* ---------------------------------------------------------------- places

Deg == 1000000
P0 == [lat |-> 18520400, lng |-> 73856700]
PE == [lat |-> 18565400, lng |-> 73856700]
PF == [lat |-> 18600000, lng |-> 73900000]
Places == {P0, PE, PF}

\* Further points of the globe: the north pole, a point of the southern and
\* eastern hemisphere, the two ends of the equator at the antimeridian, and
\* a point of the southern and western hemisphere.
PN == [lat |-> 90000000, lng |-> 0]
PS == [lat |-> -33868800, lng |-> 151209300]
PW == [lat |-> 0, lng |-> -180000000]
PD == [lat |-> 0, lng |-> 180000000]
PQ == [lat |-> -180700, lng |-> -78467800]
GeoPoints == Places \cup {PN, PS, PW, PD, PQ}

\* Haversine distance with R = 6371 km, rounded to two decimals: the value
\* the function returns for each ordered pair of points, from the first
\* argument pair to the second: <<a, b, hundredths of a km>>.
HaversineTable ==
  { <<P0, P0, 0>>, <<P0, PE, 500>>, <<P0, PF, 996>>, <<P0, PN, 794817>>,
    <<P0, PS, 1003709>>, <<P0, PW, 1170729>>, <<P0, PD, 1170729>>, <<P0, PQ, 1636976>>,
    <<PE, P0, 500>>, <<PE, PE, 0>>, <<PE, PF, 597>>, <<PE, PN, 794317>>,
    <<PE, PS, 1004002>>, <<PE, PW, 1170684>>, <<PE, PD, 1170684>>, <<PE, PQ, 1636719>>,
    <<PF, P0, 996>>, <<PF, PE, 597>>, <<PF, PF, 0>>, <<PF, PN, 793932>>,
    <<PF, PS, 1003858>>, <<PF, PW, 1170194>>, <<PF, PD, 1170194>>, <<PF, PQ, 1636912>>,
    <<PN, P0, 794817>>, <<PN, PE, 794317>>, <<PN, PF, 793932>>, <<PN, PN, 0>>,
    <<PN, PS, 1377358>>, <<PN, PW, 1000754>>, <<PN, PD, 1000754>>, <<PN, PQ, 1002764>>,
    <<PS, P0, 1003709>>, <<PS, PE, 1004002>>, <<PS, PF, 1003858>>, <<PS, PN, 1377358>>,
    <<PS, PS, 0>>, <<PS, PW, 481564>>, <<PS, PD, 481564>>, <<PS, PQ, 1360804>>,
    <<PW, P0, 1170729>>, <<PW, PE, 1170684>>, <<PW, PF, 1170194>>, <<PW, PN, 1000754>>,
    <<PW, PS, 481564>>, <<PW, PW, 0>>, <<PW, PD, 0>>, <<PW, PQ, 1128986>>,
    <<PD, P0, 1170729>>, <<PD, PE, 1170684>>, <<PD, PF, 1170194>>, <<PD, PN, 1000754>>,
    <<PD, PS, 481564>>, <<PD, PW, 0>>, <<PD, PD, 0>>, <<PD, PQ, 1128986>>,
    <<PQ, P0, 1636976>>, <<PQ, PE, 1636719>>, <<PQ, PF, 1636912>>, <<PQ, PN, 1002764>>,
    <<PQ, PS, 1360804>>, <<PQ, PW, 1128986>>, <<PQ, PD, 1128986>>, <<PQ, PQ, 0>> }

\* calculateDistance that loses the sign of the latitude difference only
\* on the way north (dLat not squared).
calculateDistance_SignedLatitude(lat1, lon1, lat2, lon2) ==
  LET d == (CHOOSE t \in HaversineTable :
              /\ t[1] = [lat |-> lat1, lng |-> lon1]
              /\ t[2] = [lat |-> lat2, lng |-> lon2])[3]
  IN IF lat2 < lat1 THEN 0 - d ELSE d

calculateDistance(lat1, lon1, lat2, lon2) ==
  (CHOOSE t \in HaversineTable :
      /\ t[1] = [lat |-> lat1, lng |-> lon1]
      /\ t[2] = [lat |-> lat2, lng |-> lon2])[3]

\* Values a caller may pass for a coordinate: a finite number (in millionths
\* of a degree), NaN, an infinity, a string of digits, undefined.
JsNumber(v) == [type |-> "number", nan |-> FALSE, inf |-> 0, val |-> v]
JsNaN == [type |-> "number", nan |-> TRUE, inf |-> 0, val |-> 0]
JsInfinity == [type |-> "number", nan |-> FALSE, inf |-> 1, val |-> 0]
JsMinusInfinity == [type |-> "number", nan |-> FALSE, inf |-> -1, val |-> 0]
JsString(v) == [type |-> "string", nan |-> FALSE, inf |-> 0, val |-> v]
JsUndefined == [type |-> "undefined", nan |-> FALSE, inf |-> 0, val |-> 0]
typeof(x) == x.type

\* x >= c and x <= c for a value of type number and a finite c: false for
\* NaN, decided by the sign for an infinity.
Ge(x, c) == ~x.nan /\ (x.inf = 1 \/ (x.inf = 0 /\ x.val >= c))
Le(x, c) == ~x.nan /\ (x.inf = -1 \/ (x.inf = 0 /\ x.val <= c))
Greater(x, c) == ~x.nan /\ (x.inf = 1 \/ (x.inf = 0 /\ x.val > c))
Less(x, c) == ~x.nan /\ (x.inf = -1 \/ (x.inf = 0 /\ x.val < c))

\* validateCoordinates with the boundaries left out.
validateCoordinates_Exclusive(latitude, longitude) ==
  /\ typeof(latitude) = "number"
  /\ typeof(longitude) = "number"
  /\ Greater(latitude, -90 * Deg) /\ Less(latitude, 90 * Deg)
  /\ Greater(longitude, -180 * Deg) /\ Less(longitude, 180 * Deg)

validateCoordinates(latitude, longitude) ==
  /\ typeof(latitude) = "number"
  /\ typeof(longitude) = "number"
  /\ Ge(latitude, -90 * Deg) /\ Le(latitude, 90 * Deg)
  /\ Ge(longitude, -180 * Deg) /\ Le(longitude, 180 * Deg)

\* The storage engine's spherical distance in metres (earth radius 6378.1 km)
\* between the places of the model.
NearTable ==
  { <<P0, P0, 0>>,    <<P0, PE, 5009>>, <<P0, PF, 9970>>,
    <<PE, P0, 5009>>, <<PE, PE, 0>>,    <<PE, PF, 5976>>,
    <<PF, P0, 9970>>, <<PF, PE, 5976>>, <<PF, PF, 0>> }

GeoMetres(a, b) == (CHOOSE t \in NearTable : t[1] = a /\ t[2] = b)[3]

\* ----------------------------------------------------------- environment

\* An environment variable: unset, or a string of decimal digits.
Unset == [set |-> FALSE, val |-> 0]
EnvNum(v) == [set |-> TRUE, val |-> v]

\* parseInt(process.env.X) and parseFloat of a defaulted query parameter.
parseInt(e) == IF e.set THEN [nan |-> FALSE, val |-> e.val] ELSE NaN

\* parseInt(process.env.MAX_SEARCH_RADIUS) || 5  (NaN and 0 are falsy), in km.
MaxSearchRadius(e) ==
  LET n == parseInt(e.MAX_SEARCH_RADIUS)
  IN IF n.nan \/ n.val = 0 THEN 5 ELSE n.val

EnvConfigs ==
  { [MAX_SEARCH_RADIUS |-> Unset,     DEFAULT_SEARCH_RADIUS |-> Unset],
    [MAX_SEARCH_RADIUS |-> EnvNum(3), DEFAULT_SEARCH_RADIUS |-> EnvNum(5)] }

\* process.env.NODE_ENV: the two modes the error handler knows, and another.
Modes == {"development", "production", "test"}

\* ------------------------------------------------------------- responses

\* A message is its sentences (the template) and the number interpolated into it.
Msg(text, n) == [text |-> <<text>>, n |-> n]

\* next() without an error: the chain goes on.
Pass == [status |-> 0, message |-> Msg("", 0), kind |-> "next", data |-> <<>>]

\* next(new AppError(message, statusCode)): the request ends with this error.
AppError(message, statusCode) ==
  [status |-> statusCode, message |-> message, kind |-> "error", data |-> <<>>,
   isOperational |-> TRUE]

\* res.status(code).json({status: 'success', data: {issue}}) and {issues}.
Json(code, kind, views) ==
  [status |-> code, message |-> Msg("", 0), kind |-> kind, data |-> views]

NoResponse == [status |-> 0, message |-> Msg("", 0), kind |-> "none", data |-> <<>>]

\* -------------------------------------------------------------- documents

\* JS null in a slot that otherwise holds an object.
NoObj == [null |-> TRUE]

\* {...r, ...s}
Spread(r, s) == [f \in DOMAIN r \cup DOMAIN s |-> IF f \in DOMAIN s THEN s[f] ELSE r[f]]

SeqMap(F(_), s) == [i \in 1..Len(s) |-> F(s[i])]

\* populate(path, 'username email') and populate(path, 'username').
PopulateContact(u) ==
  IF u = Null THEN NoObj ELSE [_id |-> u, username |-> Username(u), email |-> Email(u)]
PopulateName(u) ==
  IF u = Null THEN NoObj ELSE [_id |-> u, username |-> Username(u)]

AnonymousReporter == [_id |-> Null, username |-> "Anonymous", email |-> Null]

\* An ObjectId that was not populated; mongoose gives it an _id getter.
Ref(u) == IF u = Null THEN NoObj ELSE [_id |-> u]

Undefined == "undefined"
Field(r, f) == IF f \in DOMAIN r THEN r[f] ELSE Undefined
\* Truthiness of a boolean field and of an object field that may be missing.
TruthyFlag(r, f) == f \in DOMAIN r /\ r[f] = TRUE
TruthyObj(r, f) == f \in DOMAIN r /\ r[f] # NoObj
\* a || b on strings
OrElse(a, b) == IF a = "" \/ a = Undefined THEN b ELSE a

\* The stored document as the controllers see it after
\* populate('reportedBy', 'username email') and populate('comments.user', 'username').
ToObject(id, d) ==
  [ _id         |-> id,
    location    |-> d.location,
    isAnonymous |-> d.isAnonymous,
    isHidden    |-> d.isHidden,
    status      |-> d.status,
    reportedBy  |-> PopulateContact(d.reportedBy),
    comments    |-> SeqMap(LAMBDA c : [user |-> PopulateName(c.user),
                                       username |-> c.username], d.comments),
    activityLog |-> SeqMap(LAMBDA l : [action |-> l.action, actor |-> Ref(l.actor),
                                       actorName |-> l.actorName], d.activityLog) ]

\* The same without populate('comments.user').
ToObjectPlain(id, d) ==
  Spread(ToObject(id, d),
         [comments |-> SeqMap(LAMBDA c : [user |-> Ref(c.user),
                                          username |-> c.username], d.comments)])

\* ------------------------------------------------ anonymousMiddleware.js

filterComment(comment) ==
  Spread(comment,
    [ username |-> OrElse(Field(comment, "username"), "Anonymous"),
      user     |-> IF TruthyObj(comment, "user")
                   THEN [_id |-> comment.user._id,
                         username |-> OrElse(Field(comment, "username"), "Anonymous")]
                   ELSE NoObj ])

filterLog(log) ==
  Spread(log,
    [ actorName |-> OrElse(Field(log, "actorName"), "System"),
      actor     |-> IF TruthyObj(log, "actor")
                    THEN [_id |-> log.actor._id,
                          username |-> OrElse(Field(log, "actorName"), "System")]
                    ELSE NoObj ])

\* filterAnonymousData with the anonymity flag tested the wrong way round
\* (!issue.isAnonymous for issue.isAnonymous).
filterAnonymousData_FlagInverted(issue) ==
  LET reporter ==
        IF ~TruthyFlag(issue, "isAnonymous") \/ ~TruthyObj(issue, "reportedBy")
        THEN [ reportedBy   |-> AnonymousReporter,
               reporterName |-> "Anonymous",
               isAnonymous  |-> TRUE ]
        ELSE [ reporterName |-> Field(issue.reportedBy, "username"),
               isAnonymous  |-> FALSE ]
      f1 == Spread(issue, reporter)
      f2 == IF "comments" \in DOMAIN f1
            THEN Spread(f1, [comments |-> SeqMap(filterComment, f1.comments)])
            ELSE f1
  IN IF "activityLog" \in DOMAIN f2
     THEN Spread(f2, [activityLog |-> SeqMap(filterLog, f2.activityLog)])
     ELSE f2

filterAnonymousData(issue) ==
  LET reporter ==
        IF TruthyFlag(issue, "isAnonymous") \/ ~TruthyObj(issue, "reportedBy")
        THEN [ reportedBy   |-> AnonymousReporter,
               reporterName |-> "Anonymous",
               isAnonymous  |-> TRUE ]
        ELSE [ reporterName |-> Field(issue.reportedBy, "username"),
               isAnonymous  |-> FALSE ]
      f1 == Spread(issue, reporter)
      f2 == IF "comments" \in DOMAIN f1
            THEN Spread(f1, [comments |-> SeqMap(filterComment, f1.comments)])
            ELSE f1
  IN IF "activityLog" \in DOMAIN f2
     THEN Spread(f2, [activityLog |-> SeqMap(filterLog, f2.activityLog)])
     ELSE f2

filterMultipleIssues(views) == SeqMap(filterAnonymousData, views)

\* res.json as patched by applyAnonymousFiltering.
applyAnonymousFiltering(r) ==
  IF r.kind = "issues" THEN [r EXCEPT !.data = filterMultipleIssues(r.data)]
  ELSE IF r.kind = "issue" THEN [r EXCEPT !.data = SeqMap(filterAnonymousData, r.data)]
  ELSE r

\* ------------------------------------- anonymousMiddleware.js, by reference
\* The objects of a response body as JavaScript holds them: heap is the
\* sequence of objects allocated so far, [ref |-> a] refers to heap[a], an
\* array is an object with the field items, and NoObj is null.

\* A new object for the value o.
LoadObj(h, o) ==
  IF o = NoObj THEN [heap |-> h, ref |-> NoObj]
  ELSE [heap |-> Append(h, o), ref |-> [ref |-> Len(h) + 1]]

RECURSIVE LoadEntries(_, _, _, _)
LoadEntries(h, entries, refField, acc) ==
  IF entries = <<>> THEN [heap |-> h, refs |-> acc]
  ELSE LET o  == LoadObj(h, Head(entries)[refField])
           h2 == Append(o.heap, Spread(Head(entries), refField :> o.ref))
       IN LoadEntries(h2, Tail(entries), refField, Append(acc, [ref |-> Len(h2)]))

LoadArray(h, entries, refField) ==
  LET l == LoadEntries(h, entries, refField, <<>>)
  IN [heap |-> Append(l.heap, [items |-> l.refs]), ref |-> [ref |-> Len(l.heap) + 1]]

\* issue.toObject(): the view as a graph of objects, the issue's object last.
LoadIssue(view) ==
  LET r == LoadObj(<<>>, view.reportedBy)
      c == LoadArray(r.heap, view.comments, "user")
      l == LoadArray(c.heap, view.activityLog, "actor")
  IN [ heap |-> Append(l.heap, Spread(view, [ reportedBy  |-> r.ref,
                                              comments    |-> c.ref,
                                              activityLog |-> l.ref ])),
       ref  |-> [ref |-> Len(l.heap) + 1] ]

\* The value that JSON.stringify makes of the object at r.
DerefObj(h, r) == IF r = NoObj THEN NoObj ELSE h[r.ref]
DerefEntries(h, r, refField) ==
  [ i \in 1..Len(h[r.ref].items) |->
      LET e == h[h[r.ref].items[i].ref]
      IN Spread(e, refField :> DerefObj(h, e[refField])) ]
DerefIssue(h, r) ==
  Spread(h[r.ref], [ reportedBy  |-> DerefObj(h, h[r.ref].reportedBy),
                     comments    |-> DerefEntries(h, h[r.ref].comments, "user"),
                     activityLog |-> DerefEntries(h, h[r.ref].activityLog, "actor") ])

\* The arrow functions given to map: ({...entry, name, ref: entry.ref ? {...} : null}).
\* The entry made is the last object of the heap returned.
filterEntryOnHeap(h, a, nameField, refField, default) ==
  LET entry == h[a]
      name  == OrElse(Field(entry, nameField), default)
      u     == IF TruthyObj(entry, refField)
               THEN LoadObj(h, [_id |-> h[entry[refField].ref]._id, username |-> name])
               ELSE [heap |-> h, ref |-> NoObj]
  IN Append(u.heap, Spread(entry, (nameField :> name) @@ (refField :> u.ref)))

\* Array.prototype.map with that function: a new array of new entries.
RECURSIVE mapOnHeap(_, _, _, _, _, _)
mapOnHeap(h, items, nameField, refField, default, acc) ==
  IF items = <<>>
  THEN [heap |-> Append(h, [items |-> acc]), ref |-> [ref |-> Len(h) + 1]]
  ELSE LET h2 == filterEntryOnHeap(h, Head(items).ref, nameField, refField, default)
       IN mapOnHeap(h2, Tail(items), nameField, refField, default,
                    Append(acc, [ref |-> Len(h2)]))

\* filterAnonymousData that starts with filteredIssue = issue, without the
\* spread.
filterAnonymousDataOnHeap_NoCopy(h, r) ==
  LET issue == h[r.ref]
      f  == r.ref
      h2 == IF TruthyFlag(issue, "isAnonymous") \/ ~TruthyObj(issue, "reportedBy")
            THEN LET s == Append(h, AnonymousReporter)
                 IN [s EXCEPT ![f] = Spread(@, [ reportedBy   |-> [ref |-> Len(s)],
                                                 reporterName |-> "Anonymous",
                                                 isAnonymous  |-> TRUE ])]
            ELSE [h EXCEPT ![f] = Spread(@,
                     [ reporterName |-> Field(h[issue.reportedBy.ref], "username"),
                       isAnonymous  |-> FALSE ])]
      h3 == IF TruthyObj(h2[f], "comments")
            THEN LET m == mapOnHeap(h2, h2[h2[f].comments.ref].items,
                                    "username", "user", "Anonymous", <<>>)
                 IN [m.heap EXCEPT ![f] = Spread(@, [comments |-> m.ref])]
            ELSE h2
      h4 == IF TruthyObj(h3[f], "activityLog")
            THEN LET m == mapOnHeap(h3, h3[h3[f].activityLog.ref].items,
                                    "actorName", "actor", "System", <<>>)
                 IN [m.heap EXCEPT ![f] = Spread(@, [activityLog |-> m.ref])]
            ELSE h3
  IN [heap |-> h4, ref |-> [ref |-> f]]

\* filterAnonymousData on the object at r: the heap after it and the object
\* it returns.
filterAnonymousDataOnHeap(h, r) ==
  LET issue == h[r.ref]
      h1 == Append(h, issue)
      f  == Len(h1)
      h2 == IF TruthyFlag(issue, "isAnonymous") \/ ~TruthyObj(issue, "reportedBy")
            THEN LET s == Append(h1, AnonymousReporter)
                 IN [s EXCEPT ![f] = Spread(@, [ reportedBy   |-> [ref |-> Len(s)],
                                                 reporterName |-> "Anonymous",
                                                 isAnonymous  |-> TRUE ])]
            ELSE [h1 EXCEPT ![f] = Spread(@,
                     [ reporterName |-> Field(h1[issue.reportedBy.ref], "username"),
                       isAnonymous  |-> FALSE ])]
      h3 == IF TruthyObj(h2[f], "comments")
            THEN LET m == mapOnHeap(h2, h2[h2[f].comments.ref].items,
                                    "username", "user", "Anonymous", <<>>)
                 IN [m.heap EXCEPT ![f] = Spread(@, [comments |-> m.ref])]
            ELSE h2
      h4 == IF TruthyObj(h3[f], "activityLog")
            THEN LET m == mapOnHeap(h3, h3[h3[f].activityLog.ref].items,
                                    "actorName", "actor", "System", <<>>)
                 IN [m.heap EXCEPT ![f] = Spread(@, [activityLog |-> m.ref])]
            ELSE h3
  IN [heap |-> h4, ref |-> [ref |-> f]]

\* restrictDataAccess on data.data.issue: the heap after it and the object
\* the body then holds.
restrictDataAccessOnHeap(h, r, user) ==
  IF user # Null /\ Role(user) = "admin" THEN [heap |-> h, ref |-> r]
  ELSE IF TruthyObj(h[r.ref], "reportedBy")
          /\ h[h[r.ref].reportedBy.ref]._id # Null
          /\ ~(user # Null /\ h[h[r.ref].reportedBy.ref]._id = user)
  THEN filterAnonymousDataOnHeap(h, r)
  ELSE [heap |-> h, ref |-> r]

\* --------------------------------------------------------- errorHandler.js

\* res.status(code).json(body): the answer to a request that ended in an error.
\* error is the error object serialised into the body (null when the body has
\* none) and stack tells whether the body carries the stack trace.
ErrorJson(code, status, message, error, stack) ==
  [ status |-> code, message |-> message, kind |-> "answer", data |-> <<>>,
    body |-> [status |-> status, error |-> error, stack |-> stack] ]

\* res.render('error', {title, msg}) with the status code.
Rendered(code, msg) ==
  [status |-> code, message |-> msg, kind |-> "page", data |-> <<>>]

\* err.statusCode || 500 and err.status || 'error'; an AppError has both.
StatusCode(err) == IF err.isOperational THEN err.status ELSE 500
StatusText(err) ==
  IF err.isOperational /\ err.status \in 400..499 THEN "fail" ELSE "error"

sendErrorDev(err, api) ==
  IF api
  THEN ErrorJson(StatusCode(err), StatusText(err), err.message, err, TRUE)
  ELSE Rendered(StatusCode(err), err.message)

sendErrorProd(err, api) ==
  IF api
  THEN IF err.isOperational
       THEN ErrorJson(StatusCode(err), StatusText(err), err.message, NoObj, FALSE)
       ELSE ErrorJson(500, "error", Msg("Something went very wrong!", 0), NoObj, FALSE)
  ELSE IF err.isOperational
       THEN Rendered(StatusCode(err), err.message)
       ELSE Rendered(StatusCode(err), Msg("Please try again later.", 0))

\* errorHandler: the answer, or none when NODE_ENV is neither mode.  In
\* production a duplicate-key error (code 11000) is turned into an AppError;
\* the other conversions go by error.name, which none of these errors has as
\* a property of its own.
errorHandler(e, err, api) ==
  IF e.NODE_ENV = "development" THEN sendErrorDev(err, api)
  ELSE IF e.NODE_ENV = "production"
  THEN IF "code" \in DOMAIN err /\ err.code = 11000
       THEN sendErrorProd(AppError(Msg("Duplicate field value: {n}. Please use another value!", 0), 400), api)
       ELSE sendErrorProd(err, api)
  ELSE NoResponse

\* --------------------------------------------------------------- requests

NoLoc == [latitude |-> Absent, longitude |-> Absent]
TextLoc == [latitude |-> Text, longitude |-> Num(P0.lng)]
BadLoc == [latitude |-> Num(200 * Deg), longitude |-> Num(P0.lng)]
PrefixLoc == [latitude |-> Prefixed(P0.lat), longitude |-> Num(P0.lng)]
At(p) == [latitude |-> Num(p.lat), longitude |-> Num(p.lng)]

\* Where callers stand, and what a read request may carry as its location.
CallerPlaces == {P0, PF}
QueryLocs == {NoLoc, TextLoc, BadLoc, PrefixLoc} \cup {At(p) : p \in CallerPlaces}

\* The bearer of the request's token; Null without a token.
Callers == Users \cup {Null}
\* Who reports issues, and who asks for collections (no collection route reads
\* the caller's identity).
Reporters == {Null, "u1"}
CollectionCallers == {Null, "a1"}

NoBody == [none |-> TRUE]

Request(method, path, user, loc, id, extra) ==
  Spread([ method |-> method, path |-> path, user |-> user,
           latitude |-> loc.latitude, longitude |-> loc.longitude,
           distance |-> Absent, bounds |-> NoObj, forMap |-> FALSE,
           id |-> id, body |-> NoBody ], extra)

NoRequest == Request("", "", Null, NoLoc, 0, <<>>)

\* String.prototype.includes on the router-relative paths of the model.
PathIncludes(path, part) ==
  <<path, part>> \in { <<"/stats", "/stats">>, <<"/issues", "/issues">>,
                       <<"/issues/:id/review", "/issues">>,
                       <<"/issues/bulk-update", "/issues">>,
                       <<"/issues/:id/assign", "/issues">> }

\* a, and b when a called next()
Then(a, b) == IF a.kind # "next" THEN a ELSE b

\* ------------------------------------------------- distanceMiddleware.js

OutOfRange(lat, lng) ==
  Lt(lat, -90 * Deg) \/ Gt(lat, 90 * Deg) \/ Lt(lng, -180 * Deg) \/ Gt(lng, 180 * Deg)

\* enforceDistanceRestrictions without the limit on the distance parameter.
enforceDistanceRestrictions_NoLimit(e, r) ==
  LET lat == parseFloat(r.latitude)
      lng == parseFloat(r.longitude)
  IN IF ~Falsy(r.latitude) /\ ~Falsy(r.longitude) /\ OutOfRange(lat, lng)
     THEN AppError(Msg("Invalid coordinates provided", 0), 400)
     ELSE Pass

enforceDistanceRestrictions(e, r) ==
  LET maxAllowedDistance == MaxSearchRadius(e)
      lat == parseFloat(r.latitude)
      lng == parseFloat(r.longitude)
  IN IF ~Falsy(r.distance) /\ Gt(parseFloat(r.distance), maxAllowedDistance)
     THEN AppError(Msg("Distance cannot exceed {n}km for security reasons",
                       maxAllowedDistance), 400)
     ELSE IF ~Falsy(r.latitude) /\ ~Falsy(r.longitude) /\ OutOfRange(lat, lng)
     THEN AppError(Msg("Invalid coordinates provided", 0), 400)
     ELSE Pass

validateUserLocation(r) ==
  IF PathIncludes(r.path, "/issues") /\ ~PathIncludes(r.path, "/stats")
     /\ (Falsy(r.latitude) \/ Falsy(r.longitude))
  THEN AppError(Msg("Location coordinates (latitude, longitude) are required for security", 0), 400)
  ELSE Pass

\* preventOutOfAreaAccess rejecting the boundary distance as well (>= for >).
preventOutOfAreaAccess_AtBoundary(e, store, r) ==
  IF r.id # 0 /\ ~Falsy(r.latitude) /\ ~Falsy(r.longitude) /\ r.id \in DOMAIN store
  THEN LET userLat == parseFloat(r.latitude)
           userLng == parseFloat(r.longitude)
           issue == store[r.id]
           distance == calculateDistance(userLat.val, userLng.val,
                                         issue.location.lat, issue.location.lng)
           maxDistance == MaxSearchRadius(e)
       IN IF distance >= maxDistance * 100
          THEN AppError(Msg("This issue is outside your allowed area. You can only access issues within {n}km of your location.", 5), 403)
          ELSE Pass
  ELSE Pass

preventOutOfAreaAccess(e, store, r) ==
  IF r.id # 0 /\ ~Falsy(r.latitude) /\ ~Falsy(r.longitude) /\ r.id \in DOMAIN store
  THEN LET userLat == parseFloat(r.latitude)
           userLng == parseFloat(r.longitude)
           issue == store[r.id]
           distance == calculateDistance(userLat.val, userLng.val,
                                         issue.location.lat, issue.location.lng)
           maxDistance == MaxSearchRadius(e)
       IN IF distance > maxDistance * 100
          THEN AppError(Msg("This issue is outside your allowed area. You can only access issues within {n}km of your location.", 5), 403)
          ELSE Pass
  ELSE Pass

enforceLocationRestrictions(r) ==
  IF PathIncludes(r.path, "/admin") \/ PathIncludes(r.path, "/stats") THEN Pass
  ELSE
    Then(IF r.method = "POST" /\ r.path = "/"
         THEN IF r.body.location = NoObj
              THEN AppError(Msg("Location coordinates are required for issue reporting", 0), 400)
              ELSE IF \/ r.body.location.lat < -90 * Deg \/ r.body.location.lat > 90 * Deg
                      \/ r.body.location.lng < -180 * Deg \/ r.body.location.lng > 180 * Deg
              THEN AppError(Msg("Invalid location coordinates provided", 0), 400)
              ELSE Pass
         ELSE Pass,
         IF r.method = "GET" /\ ~PathIncludes(r.path, "/stats")
         THEN IF Falsy(r.latitude) \/ Falsy(r.longitude)
              THEN AppError(Msg("Location coordinates (latitude, longitude) are required for security and privacy", 0), 400)
              ELSE IF \/ isNaN(parseFloat(r.latitude)) \/ isNaN(parseFloat(r.longitude))
                      \/ OutOfRange(parseFloat(r.latitude), parseFloat(r.longitude))
              THEN AppError(Msg("Invalid location coordinates provided", 0), 400)
              ELSE Pass
         ELSE Pass)

\* res.json as patched by addDistanceInfo: every issue of the body gets its
\* distance from the query location.
addDistanceInfo(r, resp) ==
  IF resp.kind \in {"issue", "issues"} /\ ~Falsy(r.latitude) /\ ~Falsy(r.longitude)
  THEN [resp EXCEPT !.data =
          SeqMap(LAMBDA v : IF "location" \in DOMAIN v
                            THEN Spread(v, [distance |->
                                   calculateDistance(parseFloat(r.latitude).val,
                                                     parseFloat(r.longitude).val,
                                                     v.location.lat, v.location.lng)])
                            ELSE v, resp.data)]
  ELSE resp

\* ----------------------------------------------------- issueController.js

NotFound == AppError(Msg("Issue not found", 0), 404)

\* getIssue; user is req.user.
getIssue(e, store, r, user) ==
  LET userLat == parseFloat(r.latitude)
      userLng == parseFloat(r.longitude)
      maxAllowedDistance == MaxSearchRadius(e)
  IN IF Falsy(r.latitude) \/ Falsy(r.longitude)
     THEN AppError(Msg("Location coordinates (latitude, longitude) are required for security", 0), 400)
     ELSE IF isNaN(userLat) \/ isNaN(userLng) \/ OutOfRange(userLat, userLng)
     THEN AppError(Msg("Invalid location coordinates provided", 0), 400)
     ELSE IF r.id \notin DOMAIN store
     THEN NotFound
     ELSE
       LET issue == store[r.id]
           distance == calculateDistance(userLat.val, userLng.val,
                                         issue.location.lat, issue.location.lng)
           processedIssue == ToObject(r.id, issue)
           reporter ==
             IF issue.isAnonymous \/ issue.reportedBy = Null
             THEN [reportedBy |-> AnonymousReporter, reporterName |-> "Anonymous"]
             ELSE [reporterName |-> Username(issue.reportedBy)]
           comments ==
             SeqMap(LAMBDA c : Spread(c, [username |-> OrElse(c.username, "Anonymous")]),
                    processedIssue.comments)
       IN IF issue.isHidden /\ (user = Null \/ Role(user) # "admin")
          THEN NotFound
          ELSE IF distance > maxAllowedDistance * 100
          THEN AppError(Msg("This issue is outside your allowed area. You can only access issues within {n}km of your location.", maxAllowedDistance), 403)
          ELSE Json(200, "issue",
                    << Spread(Spread(processedIssue, reporter),
                              [comments |-> comments, distance |-> distance]) >>)

\* Issue.find rejects (the storage engine refuses a $maxDistance that is NaN):
\* an error that is not operational.
StorageError ==
  [status |-> 500, message |-> Msg("storage failure", 0), kind |-> "error", data |-> <<>>,
   isOperational |-> FALSE, code |-> 2]

\* Math.min on JS numbers.
MathMin(x, c) == IF x.nan THEN NaN ELSE [nan |-> FALSE, val |-> IF x.val < c THEN x.val ELSE c]

\* distance = process.env.DEFAULT_SEARCH_RADIUS when the query has none, then
\* Math.min(parseFloat(distance), maxAllowedDistance), in km.
RequestedDistance(e, r) ==
  MathMin(IF r.distance.present THEN parseFloat(r.distance)
          ELSE parseInt(e.DEFAULT_SEARCH_RADIUS),
          MaxSearchRadius(e))

\* .sort({createdAt: -1}): ids are handed out in creation order.
RECURSIVE NewestFirst(_)
NewestFirst(S) ==
  IF S = {} THEN <<>>
  ELSE LET m == CHOOSE x \in S : \A y \in S : y <= x
       IN <<m>> \o NewestFirst(S \ {m})

\* {isHidden: false, location: {$near: {$geometry: point, $maxDistance: metres}}}
FindNear(store, point, metres) ==
  { i \in DOMAIN store : ~store[i].isHidden /\ GeoMetres(point, store[i].location) <= metres }

\* {isHidden: false, location: {$geoWithin: {$box: [[west, south], [east, north]]}}}
FindInBox(store, box) ==
  { i \in DOMAIN store :
      /\ ~store[i].isHidden
      /\ box.west <= store[i].location.lng /\ store[i].location.lng <= box.east
      /\ box.south <= store[i].location.lat /\ store[i].location.lat <= box.north }

\* getIssues
getIssues(e, store, r) ==
  LET userLat == parseFloat(r.latitude)
      userLng == parseFloat(r.longitude)
      requestedDistance == RequestedDistance(e, r)
      point == [lat |-> userLat.val, lng |-> userLng.val]
      found == NewestFirst(FindNear(store, point, requestedDistance.val * 1000))
      processed(id) ==
        LET issue == ToObjectPlain(id, store[id])
            reporter ==
              IF issue.isAnonymous \/ issue.reportedBy = NoObj
              THEN [reportedBy |-> AnonymousReporter, reporterName |-> "Anonymous"]
              ELSE [reporterName |-> issue.reportedBy.username]
            processedIssue ==
              Spread(Spread(issue, reporter),
                     [distance |-> calculateDistance(userLat.val, userLng.val,
                                     issue.location.lat, issue.location.lng)])
        IN IF r.forMap
           THEN [ _id          |-> processedIssue._id,
                  location     |-> processedIssue.location,
                  reporterName |-> processedIssue.reporterName,
                  isAnonymous  |-> processedIssue.isAnonymous,
                  distance     |-> processedIssue.distance ]
           ELSE processedIssue
  IN IF Falsy(r.latitude) \/ Falsy(r.longitude)
     THEN AppError(Msg("Location coordinates (latitude, longitude) are required for security and privacy", 0), 400)
     ELSE IF isNaN(userLat) \/ isNaN(userLng) \/ OutOfRange(userLat, userLng)
     THEN AppError(Msg("Invalid location coordinates provided", 0), 400)
     ELSE IF requestedDistance.nan
     THEN StorageError
     ELSE Json(200, "issues", SeqMap(processed, found))

\* getIssuesForMap
getIssuesForMap(e, store, r) ==
  LET userLat == parseFloat(r.latitude)
      userLng == parseFloat(r.longitude)
      requestedDistance == RequestedDistance(e, r)
      point == [lat |-> userLat.val, lng |-> userLng.val]
      boxed == r.bounds # NoObj /\ r.bounds.json
      found == NewestFirst(IF boxed THEN FindInBox(store, r.bounds)
                           ELSE FindNear(store, point, requestedDistance.val * 1000))
      mapIssue(id) ==
        LET issue == ToObjectPlain(id, store[id])
            anonymous == issue.isAnonymous \/ issue.reportedBy = NoObj
        IN [ _id          |-> id,
             location     |-> issue.location,
             reporterName |-> IF anonymous THEN "Anonymous" ELSE issue.reportedBy.username,
             isAnonymous  |-> anonymous,
             distance     |-> calculateDistance(userLat.val, userLng.val,
                                issue.location.lat, issue.location.lng) ]
  IN IF Falsy(r.latitude) \/ Falsy(r.longitude)
     THEN AppError(Msg("Location coordinates (latitude, longitude) are required for map access", 0), 400)
     ELSE IF isNaN(userLat) \/ isNaN(userLng) \/ OutOfRange(userLat, userLng)
     THEN AppError(Msg("Invalid location coordinates provided", 0), 400)
     ELSE IF ~boxed /\ requestedDistance.nan
     THEN StorageError
     ELSE Json(200, "issues", SeqMap(mapIssue, found))

\* The document Issue.create stores for createIssue's issueData, with the
\* 'Created' entry addActivityLog pushes; user is req.user.
NewIssue(body, user) ==
  LET isAnonymous == IF body.isAnonymous = "undefined" THEN "false" ELSE body.isAnonymous
      named == user # Null /\ isAnonymous = "false"
  IN [ location    |-> body.location,
       reportedBy  |-> IF named THEN user ELSE Null,
       isAnonymous |-> ~named,
       isHidden    |-> FALSE,
       status      |-> "Reported",
       assignedTo  |-> Null,
       flags       |-> <<>>,
       flagCount   |-> 0,
       hiddenReason |-> Null,
       comments    |-> <<>>,
       activityLog |-> << [ action    |-> "Created",
                            actor     |-> user,
                            actorName |-> IF user # Null THEN Username(user) ELSE "Anonymous" ] >> ]

\* userSchema.methods.incrementReportCount
incrementReportCount(counts, user) == [counts EXCEPT ![user] = @ + 1]

\* createIssue that increments the report count of every authenticated
\* reporter (req.user for req.user && !isAnonymous).
createIssue_CountsEveryUser(store, id, r, user) ==
  LET issue == NewIssue(r.body, user)
  IN [ store |-> [i \in DOMAIN store \cup {id} |-> IF i = id THEN issue ELSE store[i]],
       res   |-> Json(201, "issue", << ToObjectPlain(id, issue) >>),
       counted |-> user # Null ]

\* createIssue: the store after it, its response, and whether it called
\* req.user.incrementReportCount() (req.user && !isAnonymous).
createIssue(store, id, r, user) ==
  LET issue == NewIssue(r.body, user)
  IN [ store |-> [i \in DOMAIN store \cup {id} |-> IF i = id THEN issue ELSE store[i]],
       res   |-> Json(201, "issue", << ToObjectPlain(id, issue) >>),
       counted |-> user # Null /\ issue.reportedBy # Null ]

Forbidden(text) == AppError(Msg(text, 0), 403)

Put(store, id, issue) == [i \in DOMAIN store |-> IF i = id THEN issue ELSE store[i]]

\* The response view without the replacement of the reporter.
ProcessedView_Unredacted(view, issue) == view

\* The response view of updateIssue, updateIssueStatus and addComment.
ProcessedView(view, issue) ==
  IF issue.isAnonymous \/ issue.reportedBy = Null
  THEN Spread(view, [reportedBy |-> AnonymousReporter])
  ELSE view

\* The validator of location.coordinates in the schema; a location of the
\* model has its two coordinates or is missing (NoObj).
ValidCoordinates(location) ==
  /\ location # NoObj
  /\ location.lng >= -180 * Deg /\ location.lng <= 180 * Deg
  /\ location.lat >= -90 * Deg /\ location.lat <= 90 * Deg

\* The ValidationError the update validators raise (runValidators: true).
ValidationError ==
  [status |-> 500, message |-> Msg("Validation failed", 0), kind |-> "error", data |-> <<>>,
   isOperational |-> FALSE]

\* The write error of the 2dsphere index on location: it cannot extract the
\* geo keys of a point out of bounds.  A document without the field is not
\* indexed and is accepted.
GeoKeyError ==
  [status |-> 500, message |-> Msg("Can't extract geo keys", 0), kind |-> "error",
   data |-> <<>>, isOperational |-> FALSE, code |-> 16755]

\* updateIssue: findByIdAndUpdate(id, req.body) sets the fields of the body.
updateIssue(store, r, user) ==
  IF r.id \notin DOMAIN store
  THEN [store |-> store, res |-> NotFound]
  ELSE IF Role(user) # "admin"
          /\ (store[r.id].reportedBy = Null \/ store[r.id].reportedBy # user)
  THEN [store |-> store, res |-> Forbidden("You can only update your own issues")]
  ELSE IF "location" \in DOMAIN r.body /\ ~ValidCoordinates(r.body.location)
  THEN [store |-> store, res |-> ValidationError]
  ELSE LET updatedIssue == Spread(store[r.id], r.body)
       IN [ store |-> Put(store, r.id, updatedIssue),
            res   |-> Json(200, "issue",
                           << ProcessedView(ToObjectPlain(r.id, updatedIssue), updatedIssue) >>) ]

\* deleteIssue with && for || in the ownership test: an issue without a
\* reporter has no owner to compare with.
deleteIssue_NoOwnerNoTest(store, r, user) ==
  IF r.id \notin DOMAIN store
  THEN [store |-> store, res |-> NotFound]
  ELSE IF Role(user) # "admin"
          /\ (store[r.id].reportedBy # Null /\ store[r.id].reportedBy # user)
  THEN [store |-> store, res |-> Forbidden("You can only delete your own issues")]
  ELSE [ store |-> [i \in DOMAIN store \ {r.id} |-> store[i]],
         res   |-> Json(204, "none", <<>>) ]

\* deleteIssue
deleteIssue(store, r, user) ==
  IF r.id \notin DOMAIN store
  THEN [store |-> store, res |-> NotFound]
  ELSE IF Role(user) # "admin"
          /\ (store[r.id].reportedBy = Null \/ store[r.id].reportedBy # user)
  THEN [store |-> store, res |-> Forbidden("You can only delete your own issues")]
  ELSE [ store |-> [i \in DOMAIN store \ {r.id} |-> store[i]],
         res   |-> Json(204, "none", <<>>) ]

\* updateIssueStatus testing the reporter where it should test the assignee.
updateIssueStatus_ByReporter(store, r, user) ==
  IF r.id \notin DOMAIN store
  THEN [store |-> store, res |-> NotFound]
  ELSE IF Role(user) # "admin"
          /\ (store[r.id].reportedBy = Null \/ store[r.id].reportedBy # user)
  THEN [store |-> store,
        res |-> Forbidden("You can only update status of issues assigned to you")]
  ELSE LET issue == store[r.id]
           updatedIssue ==
             [issue EXCEPT
                !.status = r.body.status,
                !.activityLog = Append(@, [ action    |-> "Status Updated",
                                            actor     |-> user,
                                            actorName |-> Username(user) ])]
       IN [ store |-> Put(store, r.id, updatedIssue),
            res   |-> Json(200, "issue",
                           << ProcessedView(ToObjectPlain(r.id, updatedIssue), updatedIssue) >>) ]

\* updateIssueStatus, with issueSchema.methods.updateStatus and addActivityLog.
updateIssueStatus(store, r, user) ==
  IF r.id \notin DOMAIN store
  THEN [store |-> store, res |-> NotFound]
  ELSE IF Role(user) # "admin"
          /\ (store[r.id].assignedTo = Null \/ store[r.id].assignedTo # user)
  THEN [store |-> store,
        res |-> Forbidden("You can only update status of issues assigned to you")]
  ELSE LET issue == store[r.id]
           updatedIssue ==
             [issue EXCEPT
                !.status = r.body.status,
                !.activityLog = Append(@, [ action    |-> "Status Updated",
                                            actor     |-> user,
                                            actorName |-> Username(user) ])]
       IN [ store |-> Put(store, r.id, updatedIssue),
            res   |-> Json(200, "issue",
                           << ProcessedView(ToObjectPlain(r.id, updatedIssue), updatedIssue) >>) ]

\* The hiddenReason of an issue that addFlag hid.
AutoHidden == "Auto-hidden due to multiple flags"

\* parseInt(process.env.SPAM_FLAG_THRESHOLD)
FlagThreshold(e) == parseInt(e.SPAM_FLAG_THRESHOLD)

\* x >= t and x < t for a threshold that may be NaN.
AtLeast(x, t) == ~t.nan /\ x >= t.val
Below(x, t) == ~t.nan /\ x < t.val

Flagged(issue, userId) == \E k \in DOMAIN issue.flags : issue.flags[k] = userId

\* issueSchema.methods.addFlag that hides only above the threshold
\* (> for >=).
addFlag_AboveThreshold(e, issue, userId) ==
  LET flags == Append(issue.flags, userId)
      hide  == AtLeast(Len(flags), [FlagThreshold(e) EXCEPT !.val = @ + 1])
               /\ ~issue.isHidden
  IN [issue EXCEPT
        !.flags = flags,
        !.flagCount = Len(flags),
        !.isHidden = IF hide THEN TRUE ELSE @,
        !.hiddenReason = IF hide THEN AutoHidden ELSE @,
        !.activityLog = Append(@, [action |-> "Flagged", actor |-> userId,
                                   actorName |-> "User"])]

\* issueSchema.methods.addFlag on a document the user has not flagged, with
\* addActivityLog: the document as it is saved.
addFlag(e, issue, userId) ==
  LET flags == Append(issue.flags, userId)
      hide  == AtLeast(Len(flags), FlagThreshold(e)) /\ ~issue.isHidden
  IN [issue EXCEPT
        !.flags = flags,
        !.flagCount = Len(flags),
        !.isHidden = IF hide THEN TRUE ELSE @,
        !.hiddenReason = IF hide THEN AutoHidden ELSE @,
        !.activityLog = Append(@, [action |-> "Flagged", actor |-> userId,
                                   actorName |-> "User"])]

\* throw new Error('User has already flagged this issue')
AlreadyFlagged ==
  [status |-> 500, message |-> Msg("User has already flagged this issue", 0),
   kind |-> "error", data |-> <<>>, isOperational |-> FALSE]

\* flagIssue
flagIssue(e, store, r, user) ==
  IF r.id \notin DOMAIN store
  THEN [store |-> store, res |-> NotFound]
  ELSE IF Flagged(store[r.id], user)
  THEN [store |-> store, res |-> AlreadyFlagged]
  ELSE [store |-> Put(store, r.id, addFlag(e, store[r.id], user)),
        res |-> Json(200, "none", <<>>)]

\* The documents the requests in flight have loaded: none.
NoneLoaded == [u \in Users |-> NoObj]

\* The elements pushed on an array since the document was loaded.
Pushed(before, after) == SubSeq(after, Len(before) + 1, Len(after))

\* this.save() of a document loaded as before and changed to after by
\* addFlag, on the document as it is stored now: the elements pushed on
\* flags and activityLog are pushed on the stored arrays, and the paths
\* that were assigned another value are set.
save(stored, before, after) ==
  [stored EXCEPT
     !.flags = @ \o Pushed(before.flags, after.flags),
     !.activityLog = @ \o Pushed(before.activityLog, after.activityLog),
     !.flagCount = IF after.flagCount # before.flagCount THEN after.flagCount ELSE @,
     !.isHidden = IF after.isHidden # before.isHidden THEN after.isHidden ELSE @,
     !.hiddenReason = IF after.hiddenReason # before.hiddenReason
                      THEN after.hiddenReason ELSE @]

\* issueSchema.methods.removeFlag
removeFlagOf(e, issue, userId) ==
  LET flags  == SelectSeq(issue.flags, LAMBDA f : f # userId)
      unhide == /\ Below(Len(flags), FlagThreshold(e))
                /\ issue.isHidden /\ issue.hiddenReason = AutoHidden
  IN [issue EXCEPT
        !.flags = flags,
        !.flagCount = Len(flags),
        !.isHidden = IF unhide THEN FALSE ELSE @,
        !.hiddenReason = IF unhide THEN Null ELSE @]

\* removeFlag
removeFlag(e, store, r, user) ==
  IF r.id \notin DOMAIN store
  THEN [store |-> store, res |-> NotFound]
  ELSE [store |-> Put(store, r.id, removeFlagOf(e, store[r.id], user)),
        res |-> Json(200, "none", <<>>)]

\* addComment, with issueSchema.methods.addComment and addActivityLog.
addComment(store, r, user) ==
  IF r.id \notin DOMAIN store
  THEN [store |-> store, res |-> NotFound]
  ELSE LET issue == store[r.id]
           updatedIssue ==
             [issue EXCEPT
                !.comments = Append(@, [user |-> user, username |-> Username(user)]),
                !.activityLog = Append(@, [ action    |-> "Comment Added",
                                            actor     |-> user,
                                            actorName |-> Username(user) ])]
       IN [ store |-> Put(store, r.id, updatedIssue),
            res   |-> Json(201, "issue",
                           << ProcessedView(ToObject(r.id, updatedIssue), updatedIssue) >>) ]

\* getUserIssues: the issues reported by userId that are not hidden.
getUserIssues(store, userId) ==
  LET found == NewestFirst({ i \in DOMAIN store :
                               store[i].reportedBy = userId /\ ~store[i].isHidden })
      processed(id) ==
        LET issue == store[id]
            view == Spread(ToObjectPlain(id, issue),
                           [reportedBy |-> PopulateName(issue.reportedBy)])
        IN IF issue.isAnonymous \/ issue.reportedBy = Null
           THEN Spread(view, [reportedBy |-> [_id |-> Null, username |-> "Anonymous"]])
           ELSE view
  IN Json(200, "issues", SeqMap(processed, found))

\* ----------------------------------------------------- userController.js

\* The document as toJSON gives it, nothing populated.
RawObject(id, d) == Spread(ToObjectPlain(id, d), [reportedBy |-> Ref(d.reportedBy)])

\* getMyIssues: the caller's issues that are not hidden.
getMyIssues(store, user) ==
  LET found == NewestFirst({ i \in DOMAIN store :
                               store[i].reportedBy = user /\ ~store[i].isHidden })
  IN Json(200, "issues", SeqMap(LAMBDA id : RawObject(id, store[id]), found))

\* ---------------------------------------------------- adminController.js

\* reviewFlaggedIssue with action 'hide', 'unhide' or 'delete'.
reviewFlaggedIssue(store, r) ==
  IF r.id \notin DOMAIN store
  THEN [store |-> store, res |-> NotFound]
  ELSE IF r.body.action = "hide"
  THEN LET issue == [store[r.id] EXCEPT
                        !.isHidden = TRUE,
                        !.hiddenReason = OrElse(Field(r.body, "reason"), "Hidden by moderator")]
       IN [store |-> Put(store, r.id, issue),
           res |-> Json(200, "issue", << RawObject(r.id, issue) >>)]
  ELSE IF r.body.action = "unhide"
  THEN LET issue == [store[r.id] EXCEPT !.isHidden = FALSE, !.hiddenReason = Null]
       IN [store |-> Put(store, r.id, issue),
           res |-> Json(200, "issue", << RawObject(r.id, issue) >>)]
  ELSE IF r.body.action = "delete"
  THEN [store |-> [i \in DOMAIN store \ {r.id} |-> store[i]],
        res |-> Json(200, "none", <<>>)]
  ELSE [store |-> store, res |-> AppError(Msg("Invalid action", 0), 400)]

\* assignIssue, with issueSchema.methods.assignTo and addActivityLog; user is
\* req.user.
assignIssue(store, r, user) ==
  IF r.id \notin DOMAIN store
  THEN [store |-> store, res |-> NotFound]
  ELSE IF r.body.userId \notin Users
  THEN [store |-> store, res |-> AppError(Msg("User not found", 0), 404)]
  ELSE LET issue ==
             [store[r.id] EXCEPT
                !.assignedTo = r.body.userId,
                !.activityLog = Append(@, [ action    |-> "Assigned",
                                            actor     |-> user,
                                            actorName |-> Username(user) ])]
       IN [store |-> Put(store, r.id, issue),
           res |-> Json(200, "issue", << RawObject(r.id, issue) >>)]

\* bulkUpdateIssues: Issue.updateMany({_id: {$in: issueIds}}, updates).
bulkUpdateIssues(store, r) ==
  IF r.body.issueIds = {}
  THEN [store |-> store, res |-> AppError(Msg("Issue IDs are required", 0), 400)]
  ELSE IF /\ r.body.issueIds \cap DOMAIN store # {}
          /\ "location" \in DOMAIN r.body.updates
          /\ r.body.updates.location # NoObj
          /\ ~ValidCoordinates(r.body.updates.location)
  THEN [store |-> store, res |-> GeoKeyError]
  ELSE [ store |-> [i \in DOMAIN store |->
                      IF i \in r.body.issueIds THEN Spread(store[i], r.body.updates)
                      ELSE store[i]],
         res   |-> Json(200, "none", <<>>) ]

\* ------------------------------------------------------ authMiddleware.js

authenticateToken(r) ==
  IF r.user = Null
  THEN AppError(Msg("You are not logged in! Please log in to get access.", 0), 401)
  ELSE Pass

requireAdmin(user) ==
  IF user = Null
  THEN AppError(Msg("You must be logged in to access this resource.", 0), 401)
  ELSE IF Role(user) # "admin"
  THEN Forbidden("Admin access required.")
  ELSE Pass

requireModerator(user) ==
  IF user = Null
  THEN AppError(Msg("You must be logged in to access this resource.", 0), 401)
  ELSE IF Role(user) \notin {"admin", "moderator"}
  THEN Forbidden("Moderator access required.")
  ELSE Pass

\* --------------------------------------------------- validationMiddleware.js

\* validateIssueCreation, as far as the location goes.
validateIssueCreation(r) ==
  IF r.body.location = NoObj
  THEN AppError(Msg("Location coordinates must be an array with exactly 2 values. Invalid coordinates. Longitude must be between -180 and 180, latitude between -90 and 90", 0), 400)
  ELSE IF ~(/\ r.body.location.lng >= -180 * Deg /\ r.body.location.lng <= 180 * Deg
            /\ r.body.location.lat >= -90 * Deg /\ r.body.location.lat <= 90 * Deg)
  THEN AppError(Msg("Invalid coordinates. Longitude must be between -180 and 180, latitude between -90 and 90", 0), 400)
  ELSE Pass

\* isFloat({min, max}) on a query parameter.
isFloat(q, min, max) == q.isnum /\ min <= q.val /\ q.val <= max

\* validateIssueFilters, as far as distance (whole km) and the location go.
validateIssueFilters(r) ==
  LET errors ==
        (IF r.distance.present /\ ~isFloat(r.distance, 1, 50)
         THEN <<"Distance must be between 0.1 and 50 kilometers">> ELSE <<>>)
        \o (IF r.latitude.present /\ ~isFloat(r.latitude, -90 * Deg, 90 * Deg)
            THEN <<"Invalid latitude">> ELSE <<>>)
        \o (IF r.longitude.present /\ ~isFloat(r.longitude, -180 * Deg, 180 * Deg)
            THEN <<"Invalid longitude">> ELSE <<>>)
  IN IF errors # <<>>
     THEN AppError([text |-> errors, n |-> 0], 400)
     ELSE Pass

\* validateAnonymousReporting: the request with its body as the middleware leaves it.
validateAnonymousReporting(r, user) ==
  IF user = Null /\ r.body.isAnonymous # "true"
  THEN [r EXCEPT !.body = Spread(r.body, [isAnonymous |-> "true"])]
  ELSE r

\* ---------------------------------------------------------- issueRoutes.js

\* req.user as the route's middleware leaves it: set by authenticateToken and
\* optionalAuth only.
ReqUser(r) ==
  IF r.method = "GET" /\ r.path \in {"/", "/map", "/:id"} THEN Null ELSE r.user

\* router.get('/:id', ...)
GetIssueRoute(e, store, r) ==
  Then(enforceLocationRestrictions(r),
  Then(validateUserLocation(r),
  Then(preventOutOfAreaAccess(e, store, r),
       applyAnonymousFiltering(addDistanceInfo(r, getIssue(e, store, r, ReqUser(r)))))))

\* router.get('/', ...)
GetIssuesRoute(e, store, r) ==
  Then(validateIssueFilters(r),
  Then(enforceLocationRestrictions(r),
  Then(validateUserLocation(r),
  Then(enforceDistanceRestrictions(e, r),
       applyAnonymousFiltering(addDistanceInfo(r, getIssues(e, store, r)))))))

\* router.get('/map', ...)
GetIssuesForMapRoute(e, store, r) ==
  Then(validateIssueFilters(r),
  Then(enforceLocationRestrictions(r),
  Then(validateUserLocation(r),
  Then(enforceDistanceRestrictions(e, r),
       applyAnonymousFiltering(addDistanceInfo(r, getIssuesForMap(e, store, r)))))))

\* A route that changes the store: its gate, then its controller.
Guarded(gate, store, out) == IF gate.kind # "next" THEN [store |-> store, res |-> gate] ELSE out

\* router.patch('/:id', ...)
UpdateIssueRoute(store, r) ==
  Guarded(authenticateToken(r), store, updateIssue(store, r, ReqUser(r)))

\* router.delete('/:id', ...)
DeleteIssueRoute(store, r) ==
  Guarded(authenticateToken(r), store, deleteIssue(store, r, ReqUser(r)))

\* router.patch('/:id/status', ...)
UpdateIssueStatusRoute(store, r) ==
  Guarded(authenticateToken(r), store, updateIssueStatus(store, r, ReqUser(r)))

\* router.post('/:id/comments', ...)
AddCommentRoute(store, r) ==
  Guarded(authenticateToken(r), store, addComment(store, r, ReqUser(r)))

\* router.get('/user/:userId', ...)
GetUserIssuesRoute(store, r) ==
  Then(authenticateToken(r), getUserIssues(store, r.body.userId))

\* userRoutes.js: router.use(authenticateToken); router.get('/issues', getMyIssues)
GetMyIssuesRoute(store, r) ==
  Then(authenticateToken(r), getMyIssues(store, ReqUser(r)))

\* adminRoutes.js: router.use(authenticateToken); router.use(requireAdmin);
\* router.patch('/issues/:id/review', requireModerator, reviewFlaggedIssue)
ReviewFlaggedIssueRoute(store, r) ==
  Guarded(Then(authenticateToken(r), Then(requireAdmin(ReqUser(r)), requireModerator(ReqUser(r)))),
          store, reviewFlaggedIssue(store, r))

\* adminRoutes.js: router.post('/issues/:id/assign', assignIssue)
AssignIssueRoute(store, r) ==
  Guarded(Then(authenticateToken(r), requireAdmin(ReqUser(r))),
          store, assignIssue(store, r, ReqUser(r)))

\* adminRoutes.js: router.post('/issues/bulk-update', bulkUpdateIssues)
BulkUpdateIssuesRoute(store, r) ==
  Guarded(Then(authenticateToken(r), requireAdmin(ReqUser(r))),
          store, bulkUpdateIssues(store, r))

\* router.post('/:id/flag', ...), the reason of the body being one of the list
FlagIssueRoute(e, store, r) ==
  Guarded(authenticateToken(r), store, flagIssue(e, store, r, ReqUser(r)))

\* router.delete('/:id/flag', ...)
RemoveFlagRoute(e, store, r) ==
  Guarded(authenticateToken(r), store, removeFlag(e, store, r, ReqUser(r)))

\* router.post('/', ...): the store after it and its response.
CreateIssueRoute(store, id, r) ==
  LET r2 == validateAnonymousReporting(r, ReqUser(r))
      gate == Then(validateIssueCreation(r), enforceLocationRestrictions(r2))
  IN IF gate.kind # "next"
     THEN [store |-> store, res |-> gate]
     ELSE createIssue(store, id, r2, ReqUser(r2))

\* ---------------------------------------------------------------- actions

\* Where issues are reported, and what a creation body may carry as location.
IssuePlaces == {PE, PF}
BodyLocs == {NoObj, [lat |-> 200 * Deg, lng |-> P0.lng]} \cup IssuePlaces

\* The distance parameter of a list request, in km.
Distances == {Absent, Num(2), Num(10)}

\* The bounds parameter of a map request: none, text that is not JSON, or a
\* viewport.
BadJson == [json |-> FALSE, north |-> 0, south |-> 0, east |-> 0, west |-> 0]
WorldBox == [json |-> TRUE, north |-> 90 * Deg, south |-> -90 * Deg,
             east |-> 180 * Deg, west |-> -180 * Deg]
Viewports == {NoObj, BadJson, WorldBox}

\* The location a write request carries in its query.
WriteLoc == At(P0)

\* Bodies of an update: fields of the schema to set (none of the modelled
\* fields for a change of title).
Updates == { <<>>, [isAnonymous |-> TRUE], [isHidden |-> FALSE] }
BulkUpdates == { [isAnonymous |-> TRUE], [isHidden |-> TRUE] }

\* A collection request with a location that cannot be served takes the other
\* parameters' defaults.
ListQueries ==
  { [loc |-> l, distance |-> Absent, forMap |-> FALSE, bounds |-> NoObj] :
      l \in {NoLoc, TextLoc, BadLoc} }
  \cup { [loc |-> At(p), distance |-> d, forMap |-> f, bounds |-> NoObj] :
           p \in CallerPlaces, d \in Distances, f \in BOOLEAN }
MapQueries ==
  { [loc |-> l, distance |-> Absent, forMap |-> FALSE, bounds |-> NoObj] :
      l \in {NoLoc, TextLoc, BadLoc} }
  \cup { [loc |-> At(p), distance |-> d, forMap |-> FALSE, bounds |-> b] :
           p \in CallerPlaces, d \in Distances, b \in Viewports }

IssueIds == 1..MaxIssues

\* reportCount of each account: default 0.
NoReports == [u \in Users |-> 0]

Init ==
  /\ env \in EnvConfigs
  /\ issues = <<>>
  /\ nextId = 1
  /\ req = NoRequest
  /\ res = NoResponse
  /\ heap = <<>>
  /\ input = NoObj
  /\ output = NoObj
  /\ users = NoReports
  /\ loaded = NoneLoaded

GetIssue ==
  \E user \in Callers, loc \in QueryLocs, id \in IssueIds :
    /\ req' = Request("GET", "/:id", user, loc, id, <<>>)
    /\ res' = GetIssueRoute(env, issues, req')
    /\ UNCHANGED <<loaded, users, heap, input, output, env, issues, nextId>>

CreateIssue ==
  \E user \in Reporters, loc \in BodyLocs, anon \in {"undefined", "true", "false"} :
    LET r == Request("POST", "/", user, NoLoc, 0,
                     [body |-> [location |-> loc, isAnonymous |-> anon]])
        out == CreateIssueRoute(issues, nextId, r)
    IN /\ out.res.status = 201 => nextId <= MaxIssues
       /\ req' = r
       /\ res' = out.res
       /\ issues' = out.store
       /\ nextId' = IF out.res.status = 201 THEN nextId + 1 ELSE nextId
       /\ users' = IF "counted" \in DOMAIN out /\ out.counted
                   THEN incrementReportCount(users, user) ELSE users
       /\ UNCHANGED <<loaded, heap, input, output, env>>

GetIssues ==
  \E user \in CollectionCallers, q \in ListQueries :
    /\ req' = Request("GET", "/", user, q.loc, 0,
                      [distance |-> q.distance, forMap |-> q.forMap])
    /\ res' = GetIssuesRoute(env, issues, req')
    /\ UNCHANGED <<loaded, users, heap, input, output, env, issues, nextId>>

GetIssuesForMap ==
  \E user \in CollectionCallers, q \in MapQueries :
    /\ req' = Request("GET", "/map", user, q.loc, 0,
                      [distance |-> q.distance, bounds |-> q.bounds])
    /\ res' = GetIssuesForMapRoute(env, issues, req')
    /\ UNCHANGED <<loaded, users, heap, input, output, env, issues, nextId>>

UpdateIssue ==
  \E user \in Callers, id \in IssueIds, body \in Updates :
    LET r == Request("PATCH", "/:id", user, WriteLoc, id, [body |-> body])
        out == UpdateIssueRoute(issues, r)
    IN /\ req' = r
       /\ res' = out.res
       /\ issues' = out.store
       /\ UNCHANGED <<loaded, users, heap, input, output, env, nextId>>

DeleteIssue ==
  \E user \in Callers, id \in IssueIds :
    LET r == Request("DELETE", "/:id", user, WriteLoc, id, <<>>)
        out == DeleteIssueRoute(issues, r)
    IN /\ req' = r
       /\ res' = out.res
       /\ issues' = out.store
       /\ UNCHANGED <<loaded, users, heap, input, output, env, nextId>>

\* The entries of an issue's activity log that are not assignments, and those
\* that are.
Logged(issue) == Len(SelectSeq(issue.activityLog, LAMBDA l : l.action # "Assigned"))
Assignments(issue) == Len(SelectSeq(issue.activityLog, LAMBDA l : l.action = "Assigned"))

UpdateIssueStatus ==
  \E user \in Callers, id \in IssueIds :
    LET r == Request("PATCH", "/:id/status", user, WriteLoc, id,
                     [body |-> [status |-> "Resolved"]])
        out == UpdateIssueStatusRoute(issues, r)
    IN /\ out.res.status = 200 => Logged(issues[id]) < MaxLog
       /\ req' = r
       /\ res' = out.res
       /\ issues' = out.store
       /\ UNCHANGED <<loaded, users, heap, input, output, env, nextId>>

AddComment ==
  \E user \in Callers, id \in IssueIds :
    LET r == Request("POST", "/:id/comments", user, WriteLoc, id, <<>>)
        out == AddCommentRoute(issues, r)
    IN /\ out.res.status = 201 =>
            /\ Len(issues[id].comments) < MaxComments
            /\ Logged(issues[id]) < MaxLog
       /\ req' = r
       /\ res' = out.res
       /\ issues' = out.store
       /\ UNCHANGED <<loaded, users, heap, input, output, env, nextId>>

\* Whom an admin assigns an issue to: a user, a moderator, or an id no user has.
Assignees == {"u1", "m1", "nobody"}

AssignIssue ==
  \E user \in Callers, id \in IssueIds, userId \in Assignees :
    LET r == Request("POST", "/issues/:id/assign", user, NoLoc, id,
                     [body |-> [userId |-> userId]])
        out == AssignIssueRoute(issues, r)
    IN /\ out.res.status = 200 => Assignments(issues[id]) < MaxAssignments
       /\ req' = r
       /\ res' = out.res
       /\ issues' = out.store
       /\ UNCHANGED <<loaded, users, heap, input, output, env, nextId>>

ReviewFlaggedIssue ==
  \E user \in Callers, id \in IssueIds, action \in {"hide", "unhide", "delete"} :
    LET r == Request("PATCH", "/issues/:id/review", user, NoLoc, id,
                     [body |-> [action |-> action]])
        out == ReviewFlaggedIssueRoute(issues, r)
    IN /\ req' = r
       /\ res' = out.res
       /\ issues' = out.store
       /\ UNCHANGED <<loaded, users, heap, input, output, env, nextId>>

BulkUpdateIssues ==
  \E user \in Callers, ids \in SUBSET IssueIds, updates \in BulkUpdates :
    LET r == Request("POST", "/issues/bulk-update", user, NoLoc, 0,
                     [body |-> [issueIds |-> ids, updates |-> updates]])
        out == BulkUpdateIssuesRoute(issues, r)
    IN /\ req' = r
       /\ res' = out.res
       /\ issues' = out.store
       /\ UNCHANGED <<loaded, users, heap, input, output, env, nextId>>

GetUserIssues ==
  \E user \in Callers, userId \in Users :
    /\ req' = Request("GET", "/user/:userId", user, NoLoc, 0, [body |-> [userId |-> userId]])
    /\ res' = GetUserIssuesRoute(issues, req')
    /\ UNCHANGED <<loaded, users, heap, input, output, env, issues, nextId>>

GetMyIssues ==
  \E user \in Callers :
    /\ req' = Request("GET", "/issues", user, NoLoc, 0, <<>>)
    /\ res' = GetMyIssuesRoute(issues, req')
    /\ UNCHANGED <<loaded, users, heap, input, output, env, issues, nextId>>

\* The views of the stored issue id that reach res.json as data.data.issue:
\* the object toObject() gives, and that object as getIssue sends it.
SentViews(id) ==
  { ToObject(id, issues[id]),
    getIssue(env, issues,
             Request("GET", "/:id", "a1", At(issues[id].location), id, <<>>),
             "a1").data[1] }

\* A controller builds the view of a stored issue and hands it to res.json.
SendIssue ==
  \E id \in DOMAIN issues : \E view \in SentViews(id) :
    LET sent == LoadIssue(view)
    IN /\ heap' = sent.heap
       /\ input' = sent.ref
       /\ output' = sent.ref
       /\ UNCHANGED <<loaded, users, env, issues, nextId, req, res>>

\* res.json as patched by applyAnonymousFiltering:
\* data.data.issue = filterAnonymousData(data.data.issue, req.user).
Redact ==
  /\ input # NoObj /\ output = input
  /\ LET out == filterAnonymousDataOnHeap(heap, output)
     IN heap' = out.heap /\ output' = out.ref
  /\ UNCHANGED <<loaded, users, env, issues, nextId, req, res, input>>

\* res.json as patched by restrictDataAccess.
RestrictDataAccess ==
  \E user \in Callers :
    /\ input # NoObj /\ output = input
    /\ LET out == restrictDataAccessOnHeap(heap, output, user)
       IN heap' = out.heap /\ output' = out.ref
    /\ UNCHANGED <<loaded, users, env, issues, nextId, req, res, input>>

Next ==
  \/ CreateIssue
  \/ UpdateIssue
  \/ DeleteIssue
  \/ UpdateIssueStatus
  \/ AddComment
  \/ ReviewFlaggedIssue
  \/ BulkUpdateIssues
  \/ GetUserIssues
  \/ GetMyIssues
  \/ GetIssues
  \/ GetIssuesForMap
  \/ GetIssue

Spec == Init /\ [][Next]_vars

\* Reporting, assignment and status updates alone.
NextAssign ==
  \/ CreateIssue
  \/ AssignIssue
  \/ UpdateIssueStatus

SpecAssign == Init /\ [][NextAssign]_vars

\* Reporting, hiding and the three read routes alone.
\* ------------------------------------------------------------------ flags

\* The 'Flagged' entries of the activity log: the flags the issue ever got.
Flaggings(issue) ==
  Cardinality({k \in DOMAIN issue.activityLog : issue.activityLog[k].action = "Flagged"})

FlagIssue ==
  \E user \in Callers, id \in IssueIds :
    LET r == Request("POST", "/:id/flag", user, WriteLoc, id, <<>>)
        out == FlagIssueRoute(env, issues, r)
    IN /\ out.res.status = 200 => Flaggings(issues[id]) < MaxFlaggings
       /\ req' = r
       /\ res' = out.res
       /\ issues' = out.store
       /\ UNCHANGED <<loaded, users, heap, input, output, env, nextId>>

RemoveFlag ==
  \E user \in Callers, id \in IssueIds :
    LET r == Request("DELETE", "/:id/flag", user, WriteLoc, id, <<>>)
        out == RemoveFlagRoute(env, issues, r)
    IN /\ req' = r
       /\ res' = out.res
       /\ issues' = out.store
       /\ UNCHANGED <<loaded, users, heap, input, output, env, nextId>>

\* A review that gives its reason.
ReviewWithReason ==
  \E user \in Callers, id \in IssueIds, reason \in {"Spam", AutoHidden} :
    LET r == Request("PATCH", "/issues/:id/review", user, NoLoc, id,
                     [body |-> [action |-> "hide", reason |-> reason]])
        out == ReviewFlaggedIssueRoute(issues, r)
    IN /\ req' = r
       /\ res' = out.res
       /\ issues' = out.store
       /\ UNCHANGED <<loaded, users, heap, input, output, env, nextId>>

\* flagIssue up to its first await: the request of a user loads the issue.
\* A user has one request in flight.
FlagIssueFind ==
  \E user \in Users, id \in IssueIds :
    LET r == Request("POST", "/:id/flag", user, WriteLoc, id, <<>>)
    IN /\ loaded[user] = NoObj
       /\ req' = r
       /\ IF id \in DOMAIN issues
          THEN /\ loaded' = [loaded EXCEPT ![user] = [id |-> id, doc |-> issues[id]]]
               /\ res' = NoResponse
          ELSE /\ loaded' = loaded
               /\ res' = NotFound
       /\ UNCHANGED <<users, heap, input, output, env, issues, nextId>>

\* flagIssue from issue.addFlag on: the request changes the document it
\* loaded and saves it, and answers.
FlagIssueSave ==
  \E user \in Users :
    /\ loaded[user] # NoObj
    /\ LET id == loaded[user].id
           doc == loaded[user].doc
       IN /\ req' = Request("POST", "/:id/flag", user, WriteLoc, id, <<>>)
          /\ IF Flagged(doc, user)
             THEN /\ issues' = issues
                  /\ res' = AlreadyFlagged
             ELSE /\ issues' = Put(issues, id, save(issues[id], doc, addFlag(env, doc, user)))
                  /\ res' = Json(200, "none", <<>>)
    /\ loaded' = [loaded EXCEPT ![user] = NoObj]
    /\ UNCHANGED <<users, heap, input, output, env, nextId>>

\* SPAM_FLAG_THRESHOLD as the README sets it, lower, and not set.
FlagThresholds == {Unset, EnvNum(2), EnvNum(3)}

InitFlag ==
  /\ env \in { [ MAX_SEARCH_RADIUS |-> Unset, DEFAULT_SEARCH_RADIUS |-> Unset,
                 SPAM_FLAG_THRESHOLD |-> t ] : t \in FlagThresholds }
  /\ issues = <<>>
  /\ nextId = 1
  /\ req = NoRequest
  /\ res = NoResponse
  /\ heap = <<>>
  /\ input = NoObj
  /\ output = NoObj
  /\ users = NoReports
  /\ loaded = NoneLoaded

NextFlag ==
  \/ CreateIssue
  \/ FlagIssue
  \/ RemoveFlag

SpecFlag == InitFlag /\ [][NextFlag]_vars

\* The flags with the reviews by which a moderator or admin hides an issue,
\* the threshold being the documented one.
InitReview ==
  /\ InitFlag
  /\ env.SPAM_FLAG_THRESHOLD = EnvNum(3)

NextReview ==
  \/ CreateIssue
  \/ FlagIssue
  \/ RemoveFlag
  \/ ReviewWithReason

SpecReview == InitReview /\ [][NextReview]_vars

\* Flag requests of different users that overlap.
NextRace ==
  \/ CreateIssue
  \/ FlagIssueFind
  \/ FlagIssueSave

SpecRace == InitFlag /\ [][NextRace]_vars

\* ------------------------------------------------- writes of the location

\* Locations of an update: a place, a longitude out of range, and for the
\* bulk update the field removed ($unset, or set to null).
OutOfBounds == [lat |-> P0.lat, lng |-> 200 * Deg]
LocationUpdates == { [location |-> PF], [location |-> OutOfBounds] }
BulkLocationUpdates == LocationUpdates \cup { [location |-> NoObj] }

UpdateIssueLocation ==
  \E user \in Callers, id \in IssueIds, body \in LocationUpdates :
    LET r == Request("PATCH", "/:id", user, WriteLoc, id, [body |-> body])
        out == UpdateIssueRoute(issues, r)
    IN /\ req' = r
       /\ res' = out.res
       /\ issues' = out.store
       /\ UNCHANGED <<loaded, users, heap, input, output, env, nextId>>

BulkUpdateLocations ==
  \E user \in Callers, ids \in SUBSET IssueIds, updates \in BulkLocationUpdates :
    LET r == Request("POST", "/issues/bulk-update", user, NoLoc, 0,
                     [body |-> [issueIds |-> ids, updates |-> updates]])
        out == BulkUpdateIssuesRoute(issues, r)
    IN /\ req' = r
       /\ res' = out.res
       /\ issues' = out.store
       /\ UNCHANGED <<loaded, users, heap, input, output, env, nextId>>

NextWrite == CreateIssue \/ UpdateIssueLocation \/ BulkUpdateLocations

SpecWrite == Init /\ [][NextWrite]_vars

\* ------------------------------ filterIssuesByDistance, filterIssuesForMap

\* Longest list of issues given to the collection filters.
MaxList == 3

RECURSIVE Reverse(_)
Reverse(s) == IF s = <<>> THEN <<>> ELSE Append(Reverse(Tail(s)), Head(s))

\* The callback of filterIssuesByDistance: is the issue kept?
WithinDistance(e, r, issue) ==
  LET maxDistance == MathMin(IF r.distance.present THEN parseFloat(r.distance)
                             ELSE [nan |-> FALSE, val |-> 5],
                             MaxSearchRadius(e))
      userLat == parseFloat(r.latitude)
      userLng == parseFloat(r.longitude)
  IN /\ issue.location # NoObj
     /\ ~isNaN(userLat) /\ ~isNaN(userLng) /\ ~isNaN(maxDistance)
     /\ calculateDistance(userLat.val, userLng.val,
                          issue.location.lat, issue.location.lng)
          <= maxDistance.val * 100

\* filterIssuesByDistance that collects the issues it keeps with unshift.
filterIssuesByDistance_Unshift(e, r, views) ==
  IF ~Falsy(r.latitude) /\ ~Falsy(r.longitude)
  THEN Reverse(SelectSeq(views, LAMBDA issue : WithinDistance(e, r, issue)))
  ELSE views

\* res.json as patched by filterIssuesByDistance: data.data.issues after it
\* (Array.prototype.filter keeps the elements the callback accepts, in order).
filterIssuesByDistance(e, r, views) ==
  IF ~Falsy(r.latitude) /\ ~Falsy(r.longitude)
  THEN SelectSeq(views, LAMBDA issue : WithinDistance(e, r, issue))
  ELSE views

\* The callback of filterIssuesForMap; maxDistance in km, 0 when not given a
\* truthy value.
InMapArea(issue, bounds, userLocation, maxDistance) ==
  IF bounds # NoObj
     /\ (\/ issue.location.lat < bounds.south \/ issue.location.lat > bounds.north
         \/ issue.location.lng < bounds.west \/ issue.location.lng > bounds.east)
  THEN FALSE
  ELSE IF userLocation # NoObj /\ maxDistance # 0
  THEN calculateDistance(userLocation.lat, userLocation.lng,
                         issue.location.lat, issue.location.lng) <= maxDistance * 100
  ELSE TRUE

\* const [lng, lat] = issue.location.coordinates throws on an issue without
\* a location: the TypeError the caller gets.
TypeError ==
  [status |-> 500, message |-> Msg("TypeError", 0), kind |-> "error", data |-> <<>>,
   isOperational |-> FALSE]

filterIssuesForMap(views, bounds, userLocation, maxDistance) ==
  IF \E k \in DOMAIN views : views[k].location = NoObj
  THEN TypeError
  ELSE Json(200, "issues",
            SelectSeq(views, LAMBDA issue : InMapArea(issue, bounds, userLocation, maxDistance)))

\* The issues a list may hold: one at each place and one without coordinates.
ListedIssues ==
  { [_id |-> 1, location |-> P0], [_id |-> 2, location |-> PE],
    [_id |-> 3, location |-> PF], [_id |-> 4, location |-> NoObj] }

InputLists == UNION { [1..n -> ListedIssues] : n \in 0..MaxList }

\* The viewport around the first two places.
NearBox == [north |-> PE.lat, south |-> P0.lat, east |-> P0.lng, west |-> P0.lng]

\* A controller hands a list of issues to res.json.
InitFilter ==
  /\ env \in EnvConfigs
  /\ issues = <<>>
  /\ nextId = 1
  /\ req = NoRequest
  /\ res \in { Json(200, "issues", list) : list \in InputLists }
  /\ heap = <<>>
  /\ input = NoObj
  /\ output = NoObj
  /\ users = NoReports
  /\ loaded = NoneLoaded

FilterIssuesByDistance ==
  \E loc \in {NoLoc, TextLoc, At(P0), At(PE)}, distance \in {Absent, Text, Num(2), Num(10)} :
    /\ res.kind = "issues"
    /\ req' = Request("GET", "/", Null, loc, 0, [distance |-> distance])
    /\ res' = [res EXCEPT !.data = filterIssuesByDistance(env, req', res.data)]
    /\ UNCHANGED <<loaded, users, heap, input, output, env, issues, nextId>>

FilterIssuesForMap ==
  \E bounds \in {NoObj, NearBox}, userLocation \in {NoObj, P0, PF}, maxDistance \in {0, 5} :
    /\ res.kind = "issues"
    /\ req' = Request("GET", "/map", Null,
                      IF userLocation = NoObj THEN NoLoc ELSE At(userLocation), 0,
                      [bounds |-> bounds, distance |-> Num(maxDistance)])
    /\ res' = filterIssuesForMap(res.data, bounds, userLocation, maxDistance)
    /\ UNCHANGED <<loaded, users, heap, input, output, env, issues, nextId>>

NextFilter == FilterIssuesByDistance \/ FilterIssuesForMap

SpecFilter == InitFilter /\ [][NextFilter]_vars

\* The geographical utilities applied to arguments of a caller's choice.
CoordinateValues ==
  { JsNumber(v * Deg) : v \in {-181, -180, -91, -90, 0, 90, 91, 180, 181} }
    \cup {JsNaN, JsInfinity, JsMinusInfinity, JsString(45 * Deg), JsUndefined}

CalculateDistance ==
  \E a \in GeoPoints, b \in GeoPoints :
    /\ input' = [from |-> a, to |-> b]
    /\ output' = [distance |-> calculateDistance(a.lat, a.lng, b.lat, b.lng)]
    /\ UNCHANGED <<loaded, users, env, issues, nextId, req, res, heap>>

ValidateCoordinates ==
  \E latitude \in CoordinateValues, longitude \in CoordinateValues :
    /\ input' = [latitude |-> latitude, longitude |-> longitude]
    /\ output' = [valid |-> validateCoordinates(latitude, longitude)]
    /\ UNCHANGED <<loaded, users, env, issues, nextId, req, res, heap>>

NextGeo == CalculateDistance \/ ValidateCoordinates

SpecGeo == Init /\ [][NextGeo]_vars

\* The error handler of the application answers the error a route ended with;
\* the routes of the issue router are under /api.
ErrorHandler ==
  /\ res.kind = "error"
  /\ res' = errorHandler(env, res, TRUE)
  /\ UNCHANGED <<loaded, users, heap, input, output, env, issues, nextId, req>>

\* The read routes with the error handler behind them, in each mode.
InitError ==
  /\ env \in { Spread(c, [NODE_ENV |-> m]) : c \in EnvConfigs, m \in Modes }
  /\ issues = <<>>
  /\ nextId = 1
  /\ req = NoRequest
  /\ res = NoResponse
  /\ heap = <<>>
  /\ input = NoObj
  /\ output = NoObj
  /\ users = NoReports
  /\ loaded = NoneLoaded

NextError ==
  \/ CreateIssue
  \/ GetIssues
  \/ GetIssuesForMap
  \/ GetIssue
  \/ ErrorHandler

SpecError == InitError /\ [][NextError]_vars

\* The issues with their comments and log entries, and their views redacted.
NextRedact ==
  \/ CreateIssue
  \/ AddComment
  \/ SendIssue
  \/ Redact
  \/ RestrictDataAccess

SpecRedact == Init /\ [][NextRedact]_vars

NextRead ==
  \/ CreateIssue
  \/ ReviewFlaggedIssue
  \/ GetIssues
  \/ GetIssuesForMap
  \/ GetIssue

SpecRead == Init /\ [][NextRead]_vars

\* ----------------------------------------------------------- properties

\* The request in req is of the given route of the issue router.
Route(method, path) == req.method = method /\ req.path = path

\* The query of req carries a latitude and longitude that are numbers in range.
Located ==
  /\ ~isNaN(parseFloat(req.latitude)) /\ ~isNaN(parseFloat(req.longitude))
  /\ ~OutOfRange(parseFloat(req.latitude), parseFloat(req.longitude))

\* The distance, in hundredths of a km, from the query location of request r
\* to a stored issue.
DistanceTo(r, issue) ==
  calculateDistance(parseFloat(r.latitude).val, parseFloat(r.longitude).val,
                    issue.location.lat, issue.location.lng)

Without(store, id) == [i \in DOMAIN store \ {id} |-> store[i]]

Privileged(u) == u # Null /\ Role(u) \in {"moderator", "admin"}

\* The views of the response in res.
Views == IF res.kind \in {"issue", "issues"} THEN {res.data[k] : k \in DOMAIN res.data} ELSE {}

\* C1: for a caller who is neither moderator nor admin, wherever the caller
\* stands, reading a hidden issue by id ends exactly as reading an id that is
\* not in the store ends, and never with a 403.
C1_HiddenReadsAsAbsent ==
  (/\ Route("GET", "/:id")
   /\ ~Privileged(req.user)
   /\ req.id \in DOMAIN issues
   /\ issues[req.id].isHidden)
  => /\ res = GetIssueRoute(env, Without(issues, req.id), req)
     /\ res.status # 403

\* C2: reading a non-hidden issue by id with a valid query location returns
\* the issue when its distance from that location is at most the configured
\* maximum radius, and otherwise ends with a 403 that carries no data.
C2_ReadAllowedIffWithinRadius ==
  (/\ Route("GET", "/:id")
   /\ Located
   /\ req.id \in DOMAIN issues
   /\ ~issues[req.id].isHidden)
  => IF DistanceTo(req, issues[req.id]) <= MaxSearchRadius(env) * 100
     THEN /\ res.status = 200 /\ res.kind = "issue"
          /\ Len(res.data) = 1 /\ res.data[1]._id = req.id
     ELSE /\ res.status = 403 /\ res.kind = "error" /\ res.data = <<>>

\* C2 happens: an issue exactly at the maximum radius was read.
C2_ReadAtBoundary ==
  /\ Route("GET", "/:id")
  /\ Located
  /\ req.id \in DOMAIN issues
  /\ ~issues[req.id].isHidden
  /\ DistanceTo(req, issues[req.id]) = MaxSearchRadius(env) * 100
  /\ res.status = 200

\* The single-item writes of the issue router.
IsWrite(r) ==
  \/ r.method \in {"PATCH", "DELETE"} /\ r.path = "/:id"
  \/ r.method = "PATCH" /\ r.path = "/:id/status"
  \/ r.method = "POST" /\ r.path = "/:id/comments"

\* C3: a single-item write by a logged-in caller on an issue that lies beyond
\* the maximum radius of the caller's location is rejected with a 403 and
\* leaves the store as it was.
C3_WritesRejectedOutOfArea ==
  [][ (/\ IsWrite(req')
       /\ req'.user # Null
       /\ req'.id \in DOMAIN issues
       /\ DistanceTo(req', issues[req'.id]) > MaxSearchRadius(env) * 100)
      => (res'.status = 403 /\ issues' = issues) ]_vars

\* The radius a collection request is answered with: min(requested, max), the
\* default radius when none is requested, the maximum when there is neither.
EffectiveRadius ==
  IF RequestedDistance(env, req).nan THEN MaxSearchRadius(env)
  ELSE RequestedDistance(env, req).val

\* C4: every issue in a successful answer of GET / or GET /map lies within
\* the effective radius of the query location, bounds or no bounds.
C4_CollectionsWithinRadius ==
  ((Route("GET", "/") \/ Route("GET", "/map")) /\ res.status = 200)
  => \A v \in Views : DistanceTo(req, issues[v._id]) <= EffectiveRadius * 100

\* The request in req lacks the coordinates its route requires: the location
\* of the body for a creation, latitude and longitude of the query otherwise.
MissingCoordinates ==
  IF req.method = "POST" THEN req.body.location = NoObj
  ELSE Falsy(req.latitude) \/ Falsy(req.longitude)

\* C5: a request that lists, fetches or creates issues without coordinates,
\* and that passed authentication where the route asks for it, ends with a
\* 400 and no data.
C5_MissingLocationRejected ==
  (/\ \/ Route("GET", "/") \/ Route("GET", "/map") \/ Route("GET", "/:id")
      \/ Route("GET", "/user/:userId") \/ Route("GET", "/issues") \/ Route("POST", "/")
   /\ MissingCoordinates
   /\ res.status # 401)
  => res.status = 400 /\ res.data = <<>>

\* Who submitted an issue: the actor of its 'Created' entry.
Submitter(issue) == issue.activityLog[1].actor

\* A populated or unpopulated user slot of a view names user u.
Names(slot, u) ==
  slot # NoObj /\ (Field(slot, "_id") = u \/ Field(slot, "username") = Username(u))

\* The view v shows user u: as reporter, in an activity entry or in a comment.
Shows(v, u) ==
  \/ "reportedBy" \in DOMAIN v /\ Names(v.reportedBy, u)
  \/ Field(v, "reporterName") = Username(u)
  \/ "activityLog" \in DOMAIN v
       /\ \E k \in DOMAIN v.activityLog :
             Names(v.activityLog[k].actor, u) \/ v.activityLog[k].actorName = Username(u)
  \/ "comments" \in DOMAIN v
       /\ \E k \in DOMAIN v.comments :
             Names(v.comments[k].user, u) \/ v.comments[k].username = Username(u)

IsRead == Route("GET", "/") \/ Route("GET", "/map") \/ Route("GET", "/:id")

\* C6: no view of an anonymous issue that the single get, the list or the map
\* returns to a caller who is neither moderator nor admin shows the user who
\* submitted it, in its reporter, its activity log or its comments.
C6_AnonymousReporterNotShown ==
  (IsRead /\ ~Privileged(req.user))
  => \A v \in Views :
       (issues[v._id].isAnonymous /\ Submitter(issues[v._id]) # Null)
       => ~Shows(v, Submitter(issues[v._id]))

\* C7: a moderator or admin reading by id a hidden issue within the maximum
\* radius of the query location gets the issue.
C7_PrivilegedReadsHidden ==
  (/\ Route("GET", "/:id")
   /\ Privileged(req.user)
   /\ Located
   /\ req.id \in DOMAIN issues
   /\ issues[req.id].isHidden
   /\ DistanceTo(req, issues[req.id]) <= MaxSearchRadius(env) * 100)
  => /\ res.status = 200 /\ res.kind = "issue"
     /\ Len(res.data) = 1 /\ res.data[1]._id = req.id

\* C8: a view of a non-anonymous issue returned by a read endpoint to a
\* caller who is neither its reporter nor an admin shows the reporter's
\* username and no email of the reporter.
C8_NameWithoutContact ==
  IsRead
  => \A v \in Views :
       LET issue == issues[v._id]
       IN (/\ ~issue.isAnonymous /\ issue.reportedBy # Null
           /\ req.user # issue.reportedBy
           /\ (req.user = Null \/ Role(req.user) # "admin"))
          => /\ \/ Field(v, "reporterName") = Username(issue.reportedBy)
                \/ "reportedBy" \in DOMAIN v
                     /\ Field(v.reportedBy, "username") = Username(issue.reportedBy)
             /\ \/ "reportedBy" \notin DOMAIN v
                \/ Field(v.reportedBy, "email") \in {Undefined, Null}

\* The endpoints of C9: list, map, single get, update, status update, add comment.
ReturnsIssue ==
  \/ IsRead
  \/ Route("PATCH", "/:id") \/ Route("PATCH", "/:id/status") \/ Route("POST", "/:id/comments")

Redacted(issue) == issue.isAnonymous \/ issue.reportedBy = Null

\* C9: in every view these endpoints return of an issue that is anonymous or
\* has no reporter, the reporter is the record with id null, username
\* "Anonymous" and email null.
C9_SentinelReporter ==
  ReturnsIssue
  => \A v \in Views :
       Redacted(issues[v._id])
       => /\ "reportedBy" \in DOMAIN v
          /\ v.reportedBy = [_id |-> Null, username |-> "Anonymous", email |-> Null]

\* C9 happens: an update answered with the view of an issue that is flagged
\* anonymous and still has its reporter stored.
C9_RedactedUpdateAnswered ==
  /\ Route("PATCH", "/:id")
  /\ res.status = 200
  /\ \E v \in Views : issues[v._id].isAnonymous /\ issues[v._id].reportedBy # Null

\* C10: every stored issue flagged anonymous has no reporter reference.
C10_AnonymousHasNoReporter ==
  \A id \in DOMAIN issues : issues[id].isAnonymous => issues[id].reportedBy = Null


\* The caller of request r may update or delete the stored issue: an admin, or
\* the user the issue's reporter reference names.
OwnerOrAdmin(r, issue) ==
  /\ r.user # Null
  /\ Role(r.user) = "admin" \/ (issue.reportedBy # Null /\ issue.reportedBy = r.user)

AssigneeOrAdmin(r, issue) ==
  /\ r.user # Null
  /\ Role(r.user) = "admin" \/ (issue.assignedTo # Null /\ issue.assignedTo = r.user)

IsCollection == Route("GET", "/") \/ Route("GET", "/map")

\* C13: a list or map request whose distance parameter is a number above the
\* maximum search radius ends with a 400 and no data; when its location is
\* valid, that 400 is the one of the distance limit, naming the maximum.
C13_RadiusTooLargeRejected ==
  (IsCollection /\ Gt(parseFloat(req.distance), MaxSearchRadius(env)))
  => /\ res.status = 400 /\ res.kind = "error" /\ res.data = <<>>
     /\ Located =>
          res.message = Msg("Distance cannot exceed {n}km for security reasons",
                            MaxSearchRadius(env))

\* C13 happens: a request with a valid location asked for more than the
\* maximum and was refused.
C13_TooLargeRefused ==
  /\ IsCollection /\ Located
  /\ Gt(parseFloat(req.distance), MaxSearchRadius(env))
  /\ res.status = 400
\* C14: a list or map request that reaches its controller is answered from a
\* storage query whose radius is min(requested, max), the default radius
\* standing for an absent distance: a number above 0 and at most the maximum.
C14_RadiusDefinedAndClamped ==
  (IsCollection /\ Located /\ res.status # 400)
  => /\ ~RequestedDistance(env, req).nan
     /\ RequestedDistance(env, req).val > 0
     /\ RequestedDistance(env, req).val <= MaxSearchRadius(env)
     /\ res.status = 200
\* The query of req carries a latitude and a longitude of which one is not a
\* decimal number within its domain.
InvalidCoordinates ==
  /\ ~Falsy(req.latitude) /\ ~Falsy(req.longitude)
  /\ \/ ~isFloat(req.latitude, -90 * Deg, 90 * Deg)
     \/ ~isFloat(req.longitude, -180 * Deg, 180 * Deg)

\* The answer of the route of req over the given store.
Answer(store) ==
  IF Route("GET", "/:id") THEN GetIssueRoute(env, store, req)
  ELSE IF Route("GET", "/map") THEN GetIssuesForMapRoute(env, store, req)
  ELSE GetIssuesRoute(env, store, req)

\* C15: a list, map or single-get request whose coordinates are present but
\* not numbers within their domain ends with a 400 without data, and with the
\* same answer whatever the store holds: nothing was fetched or measured.
C15_InvalidLocationRejected ==
  (IsRead /\ InvalidCoordinates)
  => /\ res.status = 400 /\ res.kind = "error" /\ res.data = <<>>
     /\ res = Answer(<<>>)
\* The views the controllers build of the stored issues, before redaction,
\* and the views of the response in res.
Redactable ==
  Views \cup UNION { {ToObject(id, issues[id]), ToObjectPlain(id, issues[id]),
                      RawObject(id, issues[id])} : id \in DOMAIN issues }

\* C16: redacting a redacted view gives the redacted view again.
C16_RedactionIdempotent ==
  \A v \in Redactable :
    filterAnonymousData(filterAnonymousData(v)) = filterAnonymousData(v)

\* C16 happens: a single get answered with the redacted view of an issue
\* that has a reporter, a comment and two log entries.
C16_RedactedViewWithEntries ==
  /\ Route("GET", "/:id") /\ res.status = 200
  /\ \E v \in Views :
       /\ issues[v._id].reportedBy # Null
       /\ Len(v.comments) = 1 /\ Len(v.activityLog) = 2
       /\ filterAnonymousData(v) = v
\* A step in which a redactor replaced the issue of the response body.
Redacts == (Redact \/ RestrictDataAccess) /\ heap' # heap

\* The objects reached from the issue at r: the issue, its two arrays and
\* their entries.
OwnObjects(h, r) ==
  {r.ref, h[r.ref].comments.ref, h[r.ref].activityLog.ref}
    \cup { h[h[r.ref].comments.ref].items[i].ref :
             i \in 1..Len(h[h[r.ref].comments.ref].items) }
    \cup { h[h[r.ref].activityLog.ref].items[i].ref :
             i \in 1..Len(h[h[r.ref].activityLog.ref].items) }

\* C17: a redactor leaves the stored issues and every object it was given as
\* they were (the issue, its comments, its log entries and what they refer
\* to), and the issue it returns, with its arrays and their entries, is made
\* of new objects.
C17_RedactionLeavesInput ==
  [][ Redacts =>
        /\ issues' = issues
        /\ \A a \in 1..Len(heap) : heap'[a] = heap[a]
        /\ \A a \in OwnObjects(heap', output') : a > Len(heap) ]_vars

\* C17 happens: the view of an issue with a named reporter and a comment was
\* redacted, and the body holds the redacted view while the view given
\* still reads as it was built.
C17_RedactedCopyBesideInput ==
  /\ input # NoObj /\ output # input
  /\ \E id \in DOMAIN issues :
       /\ issues[id].reportedBy # Null /\ Len(issues[id].comments) = 1
       /\ DerefIssue(heap, input) = ToObject(id, issues[id])
       /\ DerefIssue(heap, output) = filterAnonymousData(ToObject(id, issues[id]))
\* The entry shows the default name exactly when it has no actor, and its
\* actor's own name otherwise.
NamedByActor(entry, refField, nameField, default) ==
  /\ entry[nameField] = default => entry[refField] = NoObj
  /\ entry[refField] = NoObj => entry[nameField] = default
  /\ entry[refField] # NoObj => entry[nameField] = Username(entry[refField]._id)

\* C18: in every view the single get, the list or the map returns, a comment
\* is named "Anonymous" and a log entry "System" exactly when its actor is
\* null, and an entry with an actor carries that actor's username.
C18_DefaultNameIffNoActor ==
  IsRead
  => \A v \in Views :
       /\ "comments" \in DOMAIN v
            => \A k \in DOMAIN v.comments :
                 NamedByActor(v.comments[k], "user", "username", "Anonymous")
       /\ "activityLog" \in DOMAIN v
            => \A k \in DOMAIN v.activityLog :
                 NamedByActor(v.activityLog[k], "actor", "actorName", "System")
\* C19: when the single get is refused with 403, the number of km in its
\* message is the maximum radius of the configuration, the one the distance
\* was compared with.
C19_MessageStatesMaximum ==
  (Route("GET", "/:id") /\ res.status = 403)
  => res.message.n = MaxSearchRadius(env)
\* C20: the error handler answers an error that is not operational with
\* status 500 and the generic message, and a body without the error object
\* and without its stack, whatever NODE_ENV is.
C20_UnexpectedFailureGeneric ==
  [][ (ErrorHandler /\ ~res.isOperational)
      => /\ res'.kind = "answer" /\ res'.status = 500
         /\ res'.message = Msg("Something went very wrong!", 0)
         /\ res'.body.error = NoObj /\ ~res'.body.stack ]_vars
\* t is s with some of its elements left out.
RECURSIVE IsSubsequence(_, _)
IsSubsequence(t, s) ==
  IF t = <<>> THEN TRUE
  ELSE IF s = <<>> THEN FALSE
  ELSE IF Head(t) = Head(s) THEN IsSubsequence(Tail(t), Tail(s))
  ELSE IsSubsequence(t, Tail(s))

\* C21: the list a collection filter gives is a subsequence of the list it
\* was given: the issues kept are in the order they had, none is repeated
\* and none is new.
C21_FilterIsSubsequence ==
  [][ (FilterIssuesByDistance \/ FilterIssuesForMap)
      => IsSubsequence(res'.data, res.data) ]_vars

\* C21 happens: a filter has answered with two issues, issue 2 before
\* issue 1, the order they had in the list it was given.
C21_TwoSurvivorsOfThree ==
  /\ res.kind = "issues" /\ Len(res.data) = 2
  /\ res.data[1]._id = 2 /\ res.data[2]._id = 1
  /\ req.method = "GET"
\* C22: every stored issue has a location with a longitude in [-180, 180]
\* and a latitude in [-90, 90].
C22_StoredLocationValid ==
  \A id \in DOMAIN issues : ValidCoordinates(issues[id].location)
\* The list an ordinary caller standing at the issue gets.
ListedAt(store, id) ==
  GetIssuesRoute(env, store,
                 Request("GET", "/", Null, At(store[id].location), 0, [distance |-> Num(2)]))

C24_AnonymousCreationStored ==
  [][ (/\ CreateIssue /\ res'.status = 201
       /\ (req'.user = Null \/ req'.body.isAnonymous = "true"))
      => /\ issues'[nextId].isAnonymous
         /\ issues'[nextId].reportedBy = Null
         /\ users' = users ]_vars

\* C24 happens: an authenticated user has just reported anonymously.
C24_UserReportedAnonymously ==
  /\ Route("POST", "/") /\ res.status = 201
  /\ req.user = "u1" /\ req.body.isAnonymous = "true"
  /\ \E id \in DOMAIN issues : issues[id].isAnonymous /\ issues[id].reportedBy = Null
  /\ users["u1"] = 0
FiniteNumber(x) == x.type = "number" /\ ~x.nan /\ x.inf = 0

C27_ErrorAnswered ==
  [][ ErrorHandler => res'.kind \in {"answer", "page"} ]_vars
\* C28: an update of an issue by its reporter, who is not an admin, leaves
\* isHidden and hiddenReason of the issue as they were.
C28_OwnerUpdateKeepsModeration ==
  [][ (/\ UpdateIssue /\ res'.status = 200
       /\ req'.user # Null /\ Role(req'.user) # "admin")
      => /\ issues'[req'.id].isHidden = issues[req'.id].isHidden
         /\ issues'[req'.id].hiddenReason = issues[req'.id].hiddenReason ]_vars
\* C29: once every flag request has completed, the stored flagCount of an
\* issue is the number of its stored flags, however the loads and saves of
\* the requests were interleaved.
C29_CountIsNumberOfFlags ==
  (\A u \in Users : loaded[u] = NoObj)
    => \A id \in DOMAIN issues : issues[id].flagCount = Len(issues[id].flags)
\* C30: an issue that a review has hidden stays hidden over every addFlag
\* and removeFlag. An issue that never had as many flags as the threshold
\* was never hidden by addFlag: hidden, it was hidden by a review.
C30_ReviewHiddenStaysHidden ==
  [][ \A id \in DOMAIN issues :
        (/\ FlagIssue \/ RemoveFlag
         /\ issues[id].isHidden
         /\ Flaggings(issues[id]) < FlagThreshold(env).val)
        => issues'[id].isHidden ]_vars

\* An issue hidden for another reason than addFlag's stays hidden over every
\* addFlag and removeFlag.
HiddenForAnotherReasonStaysHidden ==
  [][ \A id \in DOMAIN issues :
        (/\ FlagIssue \/ RemoveFlag
         /\ issues[id].isHidden
         /\ issues[id].hiddenReason # AutoHidden)
        => issues'[id].isHidden ]_vars
====
